---------------------------- MODULE Spec2Model ----------------------------
(***************************************************************************)
(* A model of the AMW parser (petbrain/amw): the line reader, the block    *)
(* reader, the scalar lexer, the block value parser and the JSON           *)
(* sub-parser, as one state machine over a line source.                    *)
(*                                                                         *)
(* Characters are char32_t code points (integers); a line is a sequence    *)
(* of code points and positions in a line are 0-based as in the C code.    *)
(* Every C function that calls another state-changing function is a frame  *)
(* on `stack`; one action runs the top frame up to its next call or to     *)
(* its return.                                                             *)
(***************************************************************************)
EXTENDS Integers, Sequences, FiniteSets, TLC

VARIABLES
    calls,        \* API calls the client program still has to make
    results,      \* what the API calls made so far returned
    markup,       \* the lines of the markup being parsed
    src,          \* the line source: lines delivered, pushback, I/O failure
    parser,       \* the fields of AmwParser
    parser_ptr,   \* the `parser` pointer of the entry point: null, valid, freed
    delete_log,   \* *parser_ptr at each execution of amw_delete_parser
    allocated,    \* how many AmwParser objects allocate() has returned
    stack,        \* call stack of the parse, innermost frame last
    ret           \* what the last finished call returned (value and out-parameters)

vars == <<calls, results, markup, src, parser, parser_ptr, delete_log, allocated, stack, ret>>

---------------------------------------------------------------------------
(* Characters *)

\* the printable ASCII characters 32..95 and 97..126
Printable == <<" ", "!", "\"", "#", "$", "%", "&", "'", "(", ")", "*", "+", ",", "-", ".", "/",
               "0", "1", "2", "3", "4", "5", "6", "7", "8", "9", ":", ";", "<", "=", ">", "?",
               "@", "A", "B", "C", "D", "E", "F", "G", "H", "I", "J", "K", "L", "M", "N", "O",
               "P", "Q", "R", "S", "T", "U", "V", "W", "X", "Y", "Z", "[", "\\", "]", "^", "_",
               "a", "b", "c", "d", "e", "f", "g", "h", "i", "j", "k", "l", "m", "n", "o",
               "p", "q", "r", "s", "t", "u", "v", "w", "x", "y", "z", "{", "|", "}", "~">>

\* code point of a printable ASCII character
Ord == [c \in {Printable[i] : i \in 1..Len(Printable)} |->
            LET i == CHOOSE j \in 1..Len(Printable) : Printable[j] = c
            IN  IF i <= 64 THEN 31 + i ELSE 32 + i]

\* a line written as a tuple of one-character strings
L(t) == [i \in 1..Len(t) |-> Ord[t[i]]]

AMW_COMMENT == Ord["#"]

uw_isspace(c) == c \in {32, 9, 10, 11, 12, 13}
uw_isdigit(c) == Ord["0"] <= c /\ c <= Ord["9"]

Min(a, b) == IF a < b THEN a ELSE b
Max(a, b) == IF a > b THEN a ELSE b

---------------------------------------------------------------------------
(* Strings of the value system (0-based positions) *)

uw_strlen(str) == Len(str)
uw_string_index_valid(str, pos) == pos < Len(str)
\* character at `pos`, 0 beyond the end of the string
uw_char_at(str, pos) == IF pos < Len(str) THEN str[pos + 1] ELSE 0
\* characters start_pos .. end_pos - 1, clipped to the string
uw_substr(str, start_pos, end_pos) ==
    SubSeq(str, Min(start_pos, Len(str)) + 1, Min(end_pos, Len(str)))

RECURSIVE uw_string_skip_spaces(_, _)
uw_string_skip_spaces(str, pos) ==
    IF pos < Len(str) /\ uw_isspace(str[pos + 1])
    THEN uw_string_skip_spaces(str, pos + 1)
    ELSE pos

RECURSIVE uw_string_rtrim(_)
uw_string_rtrim(str) ==
    IF Len(str) > 0 /\ uw_isspace(str[Len(str)])
    THEN uw_string_rtrim(SubSeq(str, 1, Len(str) - 1))
    ELSE str

uw_string_ltrim(str) == uw_substr(str, uw_string_skip_spaces(str, 0), Len(str))
uw_string_trim(str) == uw_string_rtrim(uw_string_ltrim(str))

\* position of the first `chr` at or after start_pos, -1 when there is none
RECURSIVE uw_strchr(_, _, _)
uw_strchr(str, chr, start_pos) ==
    IF start_pos >= Len(str) THEN -1
    ELSE IF str[start_pos + 1] = chr THEN start_pos
    ELSE uw_strchr(str, chr, start_pos + 1)

uw_substring_eq(str, start_pos, end_pos, lit) ==
    end_pos <= Len(str) /\ SubSeq(str, start_pos + 1, end_pos) = lit

---------------------------------------------------------------------------
(* Values and statuses *)

\* every type of value has its own payload field, so that values of
\* different types are unequal records
UwNull == [t |-> "Null"]
UwBool(b) == [t |-> "Bool", b |-> b]
UwSigned(n) == [t |-> "Signed", n |-> n]
UwUnsigned(n) == [t |-> "Unsigned", u |-> n]
UwFloat(txt, sign) == [t |-> "Float", f |-> <<sign, txt>>]
UwString(s) == [t |-> "String", s |-> s]
UwArray(items) == [t |-> "Array", items |-> items]
UwMap(entries) == [t |-> "Map", entries |-> entries]

UwStatus(code) == [t |-> "Status", code |-> code, line |-> 0, pos |-> 0, desc |-> ""]
UwOK == UwStatus("UW_SUCCESS")
UwOOM == UwStatus("UW_ERROR_OOM")
UwError(code) == UwStatus(code)

uw_is_status(v) == v.t = "Status"
uw_error(v) == v.t = "Status" /\ v.code # "UW_SUCCESS"
uw_eof(v) == v.t = "Status" /\ v.code = "UW_ERROR_EOF"
uw_is_string(v) == v.t = "String"

\* append to a list
uw_array_append(arr, item) == UwArray(Append(arr.items, item))

\* update a map by key: the entry of an existing key is replaced in place,
\* a new key is appended
uw_map_update(map, key, value) ==
    LET e == map.entries IN
    IF \E i \in 1..Len(e) : e[i][1] = key
    THEN UwMap([i \in 1..Len(e) |-> IF e[i][1] = key THEN <<key, value>> ELSE e[i]])
    ELSE UwMap(Append(e, <<key, value>>))

amw_parser_error2(line_number, char_pos, description) ==
    [t |-> "Status", code |-> "AMW_PARSE_ERROR", line |-> line_number,
     pos |-> char_pos, desc |-> description]

amw_parser_error(p, char_pos, description) ==
    amw_parser_error2(p.line_number, char_pos, description)

_amw_end_of_block(status) ==
    status.t = "Status" /\ status.code = "AMW_END_OF_BLOCK"

end_of_line(str, position) == ~uw_string_index_valid(str, position)

isspace_or_eol_at(str, position) ==
    IF end_of_line(str, position) THEN TRUE ELSE uw_isspace(uw_char_at(str, position))

---------------------------------------------------------------------------
(* Line source: lines on demand with a one-line pushback *)

NoLine == <<>>

\* src.pos: lines delivered so far; src.unread: <<line>> when a line is pushed back;
\* src.io_at: the line whose read fails with an I/O error (0: none);
\* src.sticky: whether that failure persists on the next read;
\* src.failed: whether a read has failed
NewSource(io_at, sticky) ==
    [pos |-> 0, unread |-> NoLine, io_at |-> io_at, sticky |-> sticky, failed |-> FALSE]

uw_read_line_inplace(s) ==
    IF s.unread # NoLine
    THEN [s |-> [s EXCEPT !.unread = NoLine], st |-> UwOK, line |-> s.unread[1]]
    ELSE IF s.pos >= Len(markup)
    THEN [s |-> s, st |-> UwError("UW_ERROR_EOF"), line |-> <<>>]
    ELSE IF s.pos + 1 = s.io_at
    THEN [s |-> [s EXCEPT !.io_at = IF s.sticky THEN s.io_at ELSE 0, !.failed = TRUE],
          st |-> UwError("UW_ERROR_IO"), line |-> <<>>]
    ELSE [s |-> [s EXCEPT !.pos = s.pos + 1], st |-> UwOK, line |-> markup[s.pos + 1]]

\* the pushback holds one line
uw_unread_line(s, line) ==
    IF s.unread # NoLine THEN [s |-> s, ok |-> FALSE]
    ELSE [s |-> [s EXCEPT !.unread = <<line>>], ok |-> TRUE]

uw_get_line_number(s) == s.pos

---------------------------------------------------------------------------
(* Parser state *)

AMW_MAX_RECURSION_DEPTH == 100

CustomParsers ==
    [raw |-> "parse_raw_value", literal |-> "parse_literal_string",
     folded |-> "parse_folded_string", datetime |-> "parse_datetime",
     timestamp |-> "parse_timestamp", json |-> "_amw_json_parser_func"]

\* the keys of custom_parsers, as tuples of characters
ConvspecNames ==
    [raw |-> <<"r", "a", "w">>, literal |-> <<"l", "i", "t", "e", "r", "a", "l">>,
     folded |-> <<"f", "o", "l", "d", "e", "d">>,
     datetime |-> <<"d", "a", "t", "e", "t", "i", "m", "e">>,
     timestamp |-> <<"t", "i", "m", "e", "s", "t", "a", "m", "p">>,
     json |-> <<"j", "s", "o", "n">>]

\* the parser a successful amw_create_parser returns
NewParser ==
    [current_line |-> <<>>, current_indent |-> 0, line_number |-> 0,
     block_indent |-> 0, blocklevel |-> 1, max_blocklevel |-> AMW_MAX_RECURSION_DEPTH,
     json_depth |-> 1, max_json_depth |-> AMW_MAX_RECURSION_DEPTH,
     skip_comments |-> TRUE, eof |-> FALSE]

\* where construction fails: nowhere, at allocate(), at the line buffer,
\* at the custom_parsers map, or at uw_start_read_lines
CreateFailures == {"none", "allocate", "current_line", "custom_parsers", "start_read_lines"}

read_line_keeping_pushback(p, s) ==
    LET r == uw_read_line_inplace(s)
        s1 == [r.s EXCEPT !.unread = s.unread]
    IN  IF uw_error(r.st) THEN [p |-> p, s |-> s1, st |-> r.st]
        ELSE LET line == uw_string_rtrim(r.line) IN
             [p |-> [p EXCEPT !.current_line = line,
                              !.current_indent = uw_string_skip_spaces(line, 0),
                              !.line_number = uw_get_line_number(s1)],
              s |-> s1, st |-> UwOK]

read_line_dropping_pushback(p, s) ==
    LET r == uw_read_line_inplace([s EXCEPT !.unread = NoLine]) IN
    IF uw_error(r.st) THEN [p |-> p, s |-> r.s, st |-> r.st]
    ELSE LET line == uw_string_rtrim(r.line) IN
         [p |-> [p EXCEPT !.current_line = line,
                          !.current_indent = uw_string_skip_spaces(line, 0),
                          !.line_number = uw_get_line_number(r.s)],
          s |-> r.s, st |-> UwOK]

read_line(p, s) ==
    LET r == uw_read_line_inplace(s) IN
    IF uw_error(r.st) THEN [p |-> p, s |-> r.s, st |-> r.st]
    ELSE LET line == uw_string_rtrim(r.line) IN
         [p |-> [p EXCEPT !.current_line = line,
                          !.current_indent = uw_string_skip_spaces(line, 0),
                          !.line_number = uw_get_line_number(r.s)],
          s |-> r.s, st |-> UwOK]

is_comment_line_never(p) == FALSE

is_comment_line_any(p) == TRUE

is_comment_line(p) == uw_char_at(p.current_line, p.current_indent) = AMW_COMMENT

\* the for(;;) loop of _amw_read_block_line
RECURSIVE read_block_line_loop(_, _)
read_block_line_loop(p, s) ==
    LET r == read_line(p, s) IN
    IF uw_eof(r.st)
    THEN [p |-> [r.p EXCEPT !.eof = TRUE, !.current_line = <<>>], s |-> r.s,
          st |-> UwError("AMW_END_OF_BLOCK")]
    ELSE IF uw_error(r.st) THEN r
    ELSE LET skipped == r.p.skip_comments
                        /\ (uw_strlen(r.p.current_line) = 0 \/ is_comment_line(r.p))
             p1 == [r.p EXCEPT !.skip_comments = FALSE]
         IN  IF skipped THEN read_block_line_loop(r.p, r.s)
             ELSE IF uw_strlen(p1.current_line) = 0 THEN [p |-> p1, s |-> r.s, st |-> UwOK]
             ELSE IF p1.current_indent >= p1.block_indent THEN [p |-> p1, s |-> r.s, st |-> UwOK]
             ELSE IF is_comment_line(p1) THEN read_block_line_loop(p1, r.s)
             ELSE LET u == uw_unread_line(r.s, p1.current_line) IN
                  IF ~u.ok THEN [p |-> p1, s |-> u.s, st |-> UwError("UW_ERROR_UNREAD_FAILED")]
                  ELSE [p |-> [p1 EXCEPT !.current_line = <<>>], s |-> u.s,
                        st |-> UwError("AMW_END_OF_BLOCK")]

read_block_line_eof(p, s) ==
    IF p.eof THEN [p |-> p, s |-> s, st |-> UwError("UW_ERROR_EOF")]
    ELSE read_block_line_loop(p, s)

read_block_line(p, s) ==
    IF p.eof
    THEN [p |-> p, s |-> s,
          st |-> IF p.blocklevel # 0 THEN UwError("AMW_END_OF_BLOCK") ELSE UwError("UW_ERROR_EOF")]
    ELSE read_block_line_loop(p, s)

_amw_get_start_position_zero(p) == 0

_amw_get_start_position(p) ==
    IF p.block_indent < p.current_indent THEN p.current_indent
    ELSE uw_string_skip_spaces(p.current_line, p.block_indent)

_amw_comment_or_end_of_line(p, position) ==
    LET pos == uw_string_skip_spaces(p.current_line, position) IN
    end_of_line(p.current_line, pos) \/ uw_char_at(p.current_line, pos) = AMW_COMMENT

---------------------------------------------------------------------------
(* Scalar lexer: numbers *)

\* width of UwType_Unsigned / UwType_Signed in the model
WordBits == 8
UW_UNSIGNED_MAX == 2^WordBits - 1
UW_SIGNED_MAX == 2^(WordBits - 1) - 1

\* number_terminators of amw_parser.c and of amw_json.c
number_terminators == {AMW_COMMENT, Ord[":"]}
json_number_terminators == {AMW_COMMENT, Ord[":"], Ord[","], Ord["}"], Ord["]"]}

\* value of `chr` as a digit of `radix`, -1 when it is not one
digit_of(chr, radix) ==
    IF radix = 16
    THEN IF chr >= Ord["a"] /\ chr <= Ord["f"] THEN chr - (Ord["a"] - 10)
         ELSE IF chr >= Ord["A"] /\ chr <= Ord["F"] THEN chr - (Ord["A"] - 10)
         ELSE IF chr >= Ord["0"] /\ chr <= Ord["9"] THEN chr - Ord["0"]
         ELSE -1
    ELSE IF chr >= Ord["0"] /\ chr < Ord["0"] + radix THEN chr - Ord["0"]
    ELSE -1

RECURSIVE parse_unsigned_loop_wrapping(_, _, _, _)
parse_unsigned_loop_wrapping(ps, pos, radix, st) ==
    LET line == ps.current_line
        chr == uw_char_at(line, st.p)
        d == digit_of(chr, radix)
        new_value == (st.result * radix + d) % (UW_UNSIGNED_MAX + 1)
    IN  IF d = -1
        THEN IF ~st.digit_seen
             THEN [val |-> amw_parser_error(ps, st.p, "Bad number"), pos |-> pos]
             ELSE [val |-> UwUnsigned(st.result), pos |-> st.p]
        ELSE IF end_of_line(line, st.p + 1)
        THEN [val |-> UwUnsigned(new_value), pos |-> st.p + 1]
        ELSE parse_unsigned_loop_wrapping(ps, pos, radix,
                 [p |-> st.p + 1, result |-> new_value,
                  digit_seen |-> TRUE, separator_seen |-> FALSE])

\* st = [p, result, digit_seen, separator_seen]: the locals of parse_unsigned
RECURSIVE parse_unsigned_loop(_, _, _, _)
parse_unsigned_loop(ps, pos, radix, st) ==
    LET line == ps.current_line
        chr == uw_char_at(line, st.p)
        d == digit_of(chr, radix)
        new_value == (st.result * radix + d) % (UW_UNSIGNED_MAX + 1)
    IN  IF chr = Ord["'"] \/ chr = Ord["_"]
        THEN IF st.separator_seen
             THEN [val |-> amw_parser_error(ps, st.p, "Duplicate separator in the number"), pos |-> pos]
             ELSE IF ~st.digit_seen
             THEN [val |-> amw_parser_error(ps, st.p, "Separator is not allowed in the beginning of number"), pos |-> pos]
             ELSE IF end_of_line(line, st.p + 1)
             THEN [val |-> amw_parser_error(ps, st.p + 1, "Bad number"), pos |-> pos]
             ELSE parse_unsigned_loop(ps, pos, radix,
                      [st EXCEPT !.separator_seen = TRUE, !.p = st.p + 1])
        ELSE IF d = -1
        THEN IF ~st.digit_seen
             THEN [val |-> amw_parser_error(ps, st.p, "Bad number"), pos |-> pos]
             ELSE [val |-> UwUnsigned(st.result), pos |-> st.p]
        ELSE IF st.result > UW_UNSIGNED_MAX \div radix
        THEN [val |-> amw_parser_error(ps, pos, "Numeric overflow"), pos |-> pos]
        ELSE IF new_value < st.result
        THEN [val |-> amw_parser_error(ps, pos, "Numeric overflow"), pos |-> pos]
        ELSE IF end_of_line(line, st.p + 1)
        THEN [val |-> UwUnsigned(new_value), pos |-> st.p + 1]
        ELSE parse_unsigned_loop(ps, pos, radix,
                 [p |-> st.p + 1, result |-> new_value,
                  digit_seen |-> TRUE, separator_seen |-> FALSE])

\* returns [val, pos]: the value or the error, and *pos on return
parse_unsigned(ps, pos, radix) ==
    parse_unsigned_loop(ps, pos, radix,
        [p |-> pos, result |-> 0, digit_seen |-> FALSE, separator_seen |-> FALSE])

RECURSIVE skip_digits(_, _)
skip_digits(str, pos) ==
    IF end_of_line(str, pos) THEN pos
    ELSE IF ~(Ord["0"] <= uw_char_at(str, pos) /\ uw_char_at(str, pos) <= Ord["9"]) THEN pos
    ELSE skip_digits(str, pos + 1)

\* the `done:` part of _amw_parse_number
make_number(ps, start_pos, sign, pos, is_float, base) ==
    IF is_float
    THEN [val |-> UwFloat(uw_substr(ps.current_line, start_pos, pos), sign), pos |-> pos]
    ELSE IF base > UW_SIGNED_MAX
    THEN IF sign < 0
         THEN [val |-> amw_parser_error(ps, start_pos, "Integer overflow"), pos |-> 0]
         ELSE [val |-> UwUnsigned(base), pos |-> pos]
    ELSE IF sign < 0 /\ base # 0
    THEN [val |-> UwSigned(-base), pos |-> pos]
    ELSE [val |-> UwSigned(base), pos |-> pos]

\* the exponent part of _amw_parse_number, `chr` at `pos` being e or E
number_exponent(ps, start_pos, sign, pos, radix, base) ==
    LET line == ps.current_line
        pos1 == pos + 1
        chr == uw_char_at(line, pos1)
        pos2 == IF chr = Ord["-"] \/ chr = Ord["+"] THEN pos1 + 1 ELSE pos1
        next_pos == skip_digits(line, pos2)
    IN  IF radix # 10
        THEN [val |-> amw_parser_error(ps, start_pos, "Only decimal representation is supported for floating point numbers"), pos |-> 0]
        ELSE IF end_of_line(line, pos1) THEN make_number(ps, start_pos, sign, pos1, TRUE, base)
        ELSE IF next_pos = pos2
        THEN [val |-> amw_parser_error(ps, start_pos, "Bad exponent"), pos |-> 0]
        ELSE make_number(ps, start_pos, sign, next_pos, TRUE, base)

\* after the integer or the fraction part: exponent, terminator or error
number_tail(ps, start_pos, sign, pos, radix, is_float, base, terminators) ==
    LET chr == uw_char_at(ps.current_line, pos) IN
    IF chr = Ord["e"] \/ chr = Ord["E"]
    THEN number_exponent(ps, start_pos, sign, pos, radix, base)
    ELSE IF ~(uw_isspace(chr) \/ chr \in terminators)
    THEN [val |-> amw_parser_error(ps, start_pos, "Bad number"), pos |-> 0]
    ELSE make_number(ps, start_pos, sign, pos, is_float, base)

\* returns [val, pos]: the number or the error, and *end_pos
_amw_parse_number(ps, start_pos, sign, terminators) ==
    LET line == ps.current_line
        chr0 == uw_char_at(line, start_pos)
        spec == uw_char_at(line, start_pos + 1)
        radix == IF chr0 # Ord["0"] THEN 10
                 ELSE IF spec \in {Ord["b"], Ord["B"]} THEN 2
                 ELSE IF spec \in {Ord["o"], Ord["O"]} THEN 8
                 ELSE IF spec \in {Ord["x"], Ord["X"]} THEN 16
                 ELSE 10
        pos0 == IF chr0 = Ord["0"] /\ radix # 10 THEN start_pos + 2 ELSE start_pos
        b == parse_unsigned(ps, pos0, radix)
        pos == b.pos
        fpos == skip_digits(line, pos + 1)
    IN  IF chr0 = Ord["0"] /\ end_of_line(line, start_pos)
        THEN make_number(ps, start_pos, sign, start_pos, FALSE, 0)
        ELSE IF chr0 = Ord["0"] /\ end_of_line(line, pos0)
        THEN [val |-> amw_parser_error(ps, start_pos, "Bad number"), pos |-> 0]
        ELSE IF uw_error(b.val) THEN [val |-> b.val, pos |-> 0]
        ELSE IF end_of_line(line, pos) THEN make_number(ps, start_pos, sign, pos, FALSE, b.val.u)
        ELSE IF uw_char_at(line, pos) = Ord["."]
        THEN IF radix # 10
             THEN [val |-> amw_parser_error(ps, start_pos, "Only decimal representation is supported for floating point numbers"), pos |-> 0]
             ELSE IF end_of_line(line, fpos) THEN make_number(ps, start_pos, sign, fpos, TRUE, b.val.u)
             ELSE number_tail(ps, start_pos, sign, fpos, radix, TRUE, b.val.u, terminators)
        ELSE number_tail(ps, start_pos, sign, pos, radix, FALSE, b.val.u, terminators)

---------------------------------------------------------------------------
(* Conversion specifiers and key-value separators *)

have_custom_parser(convspec) ==
    \E name \in DOMAIN CustomParsers : L(ConvspecNames[name]) = convspec

\* returns [val, pos]: the specifier (a String) or Null, and *end_pos
\* (`end_pos` on entry when the function does not write it)
parse_convspec(ps, opening_colon_pos, end_pos) ==
    LET line == ps.current_line
        start_pos == opening_colon_pos + 1
        closing_colon_pos == uw_strchr(line, Ord[":"], start_pos)
        convspec == uw_string_trim(uw_substr(line, start_pos, closing_colon_pos))
    IN  IF closing_colon_pos = -1 THEN [val |-> UwNull, pos |-> end_pos]
        ELSE IF closing_colon_pos = start_pos THEN [val |-> UwNull, pos |-> end_pos]
        ELSE IF ~isspace_or_eol_at(line, closing_colon_pos + 1) THEN [val |-> UwNull, pos |-> end_pos]
        ELSE IF ~have_custom_parser(convspec) THEN [val |-> UwNull, pos |-> end_pos]
        ELSE [val |-> UwString(convspec), pos |-> closing_colon_pos + 1]

\* a parser that runs every conversion specifier as :raw:
get_custom_parser_raw(convspec) == "parse_raw_value"

get_custom_parser(convspec) ==
    CustomParsers[CHOOSE name \in DOMAIN CustomParsers : L(ConvspecNames[name]) = convspec.s]

\* a parser that takes no colon for a key-value separator
is_kv_separator_never(ps, colon_pos) == [kvs |-> FALSE, cs |-> UwNull, pos |-> 0]

\* returns [kvs, cs, pos]: whether the colon is a key-value separator, the
\* conversion specifier that follows it (or Null), and *value_pos
is_kv_separator(ps, colon_pos) ==
    LET line == ps.current_line
        next_pos == colon_pos + 1
        chr == uw_char_at(line, next_pos)
        spaced_pos == uw_string_skip_spaces(line, next_pos)
        cs_pos == IF uw_isspace(chr) THEN spaced_pos ELSE next_pos
        value_pos == IF uw_isspace(chr) THEN next_pos + 1 ELSE 0
        cs == parse_convspec(ps, cs_pos, value_pos)
    IN  IF end_of_line(line, next_pos) THEN [kvs |-> TRUE, cs |-> UwNull, pos |-> next_pos]
        ELSE IF uw_isspace(chr) /\ uw_char_at(line, spaced_pos) # Ord[":"]
        THEN [kvs |-> TRUE, cs |-> UwNull, pos |-> next_pos + 1]
        ELSE IF ~uw_isspace(chr) /\ chr # Ord[":"]
        THEN [kvs |-> FALSE, cs |-> UwNull, pos |-> 0]
        ELSE IF uw_is_string(cs.val) THEN [kvs |-> TRUE, cs |-> cs.val, pos |-> cs.pos]
        ELSE [kvs |-> FALSE, cs |-> UwNull, pos |-> cs.pos]

---------------------------------------------------------------------------
(* Scalar lexer: quoted strings, escapes, folding *)

\* position of the closing quote at or after start_pos, -1 when there is none
RECURSIVE _amw_find_closing_quote(_, _, _)
_amw_find_closing_quote(line, quote, start_pos) ==
    LET end_pos == uw_strchr(line, quote, start_pos) IN
    IF end_pos = -1 THEN -1
    ELSE IF end_pos # 0 /\ uw_char_at(line, end_pos - 1) = Ord["\\"]
    THEN _amw_find_closing_quote(line, quote, end_pos + 1)
    ELSE end_pos

\* the digits of \o: returns [err, v, pos]
RECURSIVE unescape_octal(_, _, _, _, _)
unescape_octal(line, line_number, i, pos0, v) ==
    LET pos == pos0 + 1
        c == uw_char_at(line, pos)
    IN  IF i = 3 THEN [err |-> UwOK, v |-> v, pos |-> pos0]
        ELSE IF end_of_line(line, pos)
        THEN IF i = 0
             THEN [err |-> amw_parser_error2(line_number, pos, "Incomplete octal value"), v |-> v, pos |-> pos]
             ELSE [err |-> UwOK, v |-> v, pos |-> pos]
        ELSE IF Ord["0"] <= c /\ c <= Ord["7"]
        THEN unescape_octal(line, line_number, i + 1, pos, v * 8 + (c - Ord["0"]))
        ELSE [err |-> amw_parser_error2(line_number, pos, "Bad octal value"), v |-> v, pos |-> pos]

\* the digits of \x, \u, \U: returns [err, v, pos]
RECURSIVE unescape_hex(_, _, _, _, _, _)
unescape_hex(line, line_number, hexlen, i, pos0, v) ==
    LET pos == pos0 + 1
        c == uw_char_at(line, pos)
        d == digit_of(c, 16)
    IN  IF i = hexlen THEN [err |-> UwOK, v |-> v, pos |-> pos0]
        ELSE IF end_of_line(line, pos)
        THEN [err |-> amw_parser_error2(line_number, pos, "Incomplete hexadecimal value"), v |-> v, pos |-> pos]
        ELSE IF d # -1
        THEN unescape_hex(line, line_number, hexlen, i + 1, pos, v * 16 + d)
        ELSE [err |-> amw_parser_error2(line_number, pos, "Bad hexadecimal value"), v |-> v, pos |-> pos]

unescape_sequence_verbatim(line, line_number, pos) ==
    [err |-> UwOK, out |-> <<Ord["\\"], uw_char_at(line, pos)>>, pos |-> pos]

\* one escape sequence, `pos` at the character after the backslash:
\* returns [err, out, pos] with `out` the characters appended and `pos` the
\* last character of the sequence
unescape_sequence(line, line_number, pos) ==
    LET chr == uw_char_at(line, pos)
        simple == [err |-> UwOK, out |-> <<chr>>, pos |-> pos]
        code(n) == [err |-> UwOK, out |-> <<n>>, pos |-> pos]
        num(r) == [err |-> r.err, out |-> <<r.v>>, pos |-> r.pos]
    IN  CASE chr \in {Ord["'"], Ord["\""], Ord["?"], Ord["\\"]} -> simple
          [] chr = Ord["a"] -> code(7)
          [] chr = Ord["b"] -> code(8)
          [] chr = Ord["f"] -> code(12)
          [] chr = Ord["n"] -> code(10)
          [] chr = Ord["r"] -> code(13)
          [] chr = Ord["t"] -> code(9)
          [] chr = Ord["v"] -> code(11)
          [] chr = Ord["o"] -> num(unescape_octal(line, line_number, 0, pos, 0))
          [] chr = Ord["x"] -> num(unescape_hex(line, line_number, 2, 0, pos, 0))
          [] chr = Ord["u"] -> num(unescape_hex(line, line_number, 4, 0, pos, 0))
          [] chr = Ord["U"] -> num(unescape_hex(line, line_number, 8, 0, pos, 0))
          [] OTHER -> [err |-> UwOK, out |-> <<Ord["\\"], chr>>, pos |-> pos]

\* the while loop of _amw_unescape_line: returns [val, pos]
RECURSIVE unescape_loop(_, _, _, _, _, _)
unescape_loop(line, line_number, quote, start_pos, pos, result) ==
    LET chr == uw_char_at(line, pos)
        e == unescape_sequence(line, line_number, pos + 1)
    IN  IF pos >= uw_strlen(line) THEN [val |-> UwString(result), pos |-> pos]
        ELSE IF chr = quote THEN [val |-> UwString(result), pos |-> pos]
        ELSE IF chr # Ord["\\"]
        THEN unescape_loop(line, line_number, quote, start_pos, pos + 1, Append(result, chr))
        ELSE IF end_of_line(line, pos + 1)
        THEN [val |-> UwOK, pos |-> start_pos]   \* `return UwOK()`, *end_pos not written
        ELSE IF uw_error(e.err) THEN [val |-> e.err, pos |-> start_pos]
        ELSE unescape_loop(line, line_number, quote, start_pos, e.pos + 1, result \o e.out)

\* returns [val, pos]: the unescaped string (or a status), and *end_pos
_amw_unescape_line(line, line_number, quote, start_pos) ==
    IF start_pos >= uw_strlen(line) THEN [val |-> UwString(<<>>), pos |-> start_pos]
    ELSE unescape_loop(line, line_number, quote, start_pos, start_pos, <<>>)

\* strip the longest common leading-space prefix of the non-empty lines
uw_array_dedent(lines) ==
    LET idx == {i \in 1..Len(lines) : Len(lines[i]) > 0}
        indent(i) == uw_string_skip_spaces(lines[i], 0)
        common == IF idx = {} THEN 0
                  ELSE CHOOSE n \in {indent(i) : i \in idx} : \A i \in idx : n <= indent(i)
    IN  [i \in 1..Len(lines) |-> uw_substr(lines[i], common, Len(lines[i]))]

RECURSIVE uw_array_join(_, _)
uw_array_join(sep, lines) ==
    IF Len(lines) = 0 THEN <<>>
    ELSE IF Len(lines) = 1 THEN lines[1]
    ELSE lines[1] \o <<sep>> \o uw_array_join(sep, Tail(lines))

\* the concatenation loop of fold_lines over lines i .. end_i (1-based here):
\* returns the folded string or the error of an unescaped line
RECURSIVE fold_concat(_, _, _, _, _, _, _)
fold_concat(lines, line_numbers, quote, start_i, end_i, i, acc) ==
    LET line == lines[i]
        empty == i > start_i /\ uw_strlen(line) = 0
        line1 == IF empty THEN <<10>> ELSE line
        sep == IF i > start_i /\ ~empty /\ ~acc.prev_LF /\ ~uw_isspace(uw_char_at(line, 0))
               THEN <<32>> ELSE <<>>
        prev_LF == IF i > start_i THEN empty ELSE acc.prev_LF
        unescaped == _amw_unescape_line(line1, line_numbers[i], quote, 0).val
        piece == IF quote # 0 THEN unescaped ELSE UwString(line1)
    IN  IF i > end_i THEN UwString(acc.result)
        ELSE IF uw_error(piece) THEN piece
        ELSE fold_concat(lines, line_numbers, quote, start_i, end_i, i + 1,
                 [result |-> acc.result \o sep \o (IF uw_is_string(piece) THEN piece.s ELSE <<>>),
                  prev_LF |-> prev_LF])

fold_lines_join(lines0, quote, line_numbers) == UwString(uw_array_join(32, uw_array_dedent(lines0)))

\* quote = 0: no unescaping
fold_lines(lines0, quote, line_numbers) ==
    LET lines == uw_array_dedent(lines0)
        nonempty == {i \in 1..Len(lines) : uw_strlen(lines[i]) # 0}
        start_i == CHOOSE i \in nonempty : \A j \in nonempty : i <= j
        end_i == CHOOSE i \in nonempty : \A j \in nonempty : i >= j
    IN  IF nonempty = {} THEN UwString(<<>>)
        ELSE fold_concat(lines, line_numbers, quote, start_i, end_i, start_i,
                 [result |-> <<>>, prev_LF |-> FALSE])

---------------------------------------------------------------------------
(* Call stack *)

Top == stack[Len(stack)]
Running(fn) == stack # <<>> /\ Top.fn = fn

\* what a call returns: the UwResult, a position out-parameter
\* (end_pos, value_pos, pos) and one more out-parameter (convspec, result)
R(val, pos, aux) == [val |-> val, pos |-> pos, aux |-> aux]
RV(val) == R(val, 0, UwNull)

\* the caller goes on as `cont` when `callee` has returned
Call(p, cont, callee) ==
    /\ parser' = p
    /\ stack' = [stack EXCEPT ![Len(stack)] = cont] \o <<callee>>
    /\ UNCHANGED <<calls, results, markup, src, parser_ptr, delete_log, allocated, ret>>

Return(p, r) ==
    /\ parser' = p
    /\ stack' = SubSeq(stack, 1, Len(stack) - 1)
    /\ ret' = r
    /\ UNCHANGED <<calls, results, markup, src, parser_ptr, delete_log, allocated>>

F(fn) == [fn |-> fn, pc |-> "start"]
F_read_block_line == F("_amw_read_block_line")
F_parse_value(nvp, vp, cs) ==
    [fn |-> "parse_value", pc |-> "start", nvp |-> nvp, vp |-> vp, cs |-> cs, start_line |-> 0]
F_check_value_end(value, end_pos, nvp, vp, cs) ==
    [fn |-> "check_value_end", pc |-> "start", value |-> value, end_pos |-> end_pos,
     nvp |-> nvp, vp |-> vp, cs |-> cs]
F_parse_map(first_key, convspec, value_pos) ==
    [fn |-> "parse_map", pc |-> "start", result |-> UwMap(<<>>), key |-> first_key,
     convspec |-> convspec, value_pos |-> value_pos, key_indent |-> 0]
F_parse_list == [fn |-> "parse_list", pc |-> "start", result |-> UwArray(<<>>), item_indent |-> 0]

\* history kept in the frames of the functions that open a block:
\* block_indent and blocklevel as they were when the function was entered
OnEntry(p) == [block_indent |-> p.block_indent, blocklevel |-> p.blocklevel]
F_parse_nested_block(block_pos, func) ==
    [fn |-> "parse_nested_block", pc |-> "start", block_pos |-> block_pos, func |-> func,
     saved_block_indent |-> 0, entry |-> OnEntry(NewParser)]
F_parse_nested_block_from_next_line(func) ==
    [fn |-> "parse_nested_block_from_next_line", pc |-> "start", func |-> func,
     entry |-> OnEntry(NewParser)]
F_parse_quoted_string(opening_quote_pos) ==
    [fn |-> "parse_quoted_string", pc |-> "start", opening_quote_pos |-> opening_quote_pos,
     quote |-> 0, saved_block_indent |-> 0, lines |-> <<>>, line_numbers |-> <<>>,
     entry |-> OnEntry(NewParser)]
F_read_block == [fn |-> "_amw_read_block", pc |-> "start", lines |-> <<>>]

\* the frame of an AmwBlockParserFunc; value_parser_func is parse_value(parser, nullptr, nullptr)
F_parser_func(func) ==
    IF func = "value_parser_func" THEN F_parse_value(FALSE, 0, UwNull) ELSE F(func)

---------------------------------------------------------------------------
(* Block reader *)

_amw_read_block_line ==
    /\ Running("_amw_read_block_line")
    /\ LET r == read_block_line(parser, src) IN
       /\ parser' = r.p
       /\ src' = r.s
       /\ ret' = RV(r.st)
    /\ stack' = SubSeq(stack, 1, Len(stack) - 1)
    /\ UNCHANGED <<calls, results, markup, parser_ptr, delete_log, allocated>>

\* one iteration of the loop of _amw_read_block, up to its read
read_block_iter(f) ==
    Call(parser,
         [f EXCEPT !.pc = "read",
                   !.lines = Append(f.lines, uw_substr(parser.current_line, parser.block_indent,
                                                       Len(parser.current_line)))],
         F_read_block_line)

_amw_read_block ==
    /\ Running("_amw_read_block")
    /\ LET f == Top IN
       IF f.pc = "start" THEN read_block_iter(f)
       ELSE IF _amw_end_of_block(ret.val) THEN Return(parser, RV(UwArray(f.lines)))
       ELSE IF uw_error(ret.val) THEN Return(parser, RV(ret.val))
       ELSE read_block_iter(f)

parse_nested_block ==
    /\ Running("parse_nested_block")
    /\ LET f == Top IN
       IF f.pc = "start"
       THEN IF parser.blocklevel >= parser.max_blocklevel
            THEN Return(parser, RV(amw_parser_error(parser, parser.current_indent, "Too many nested blocks")))
            ELSE Call([parser EXCEPT !.blocklevel = parser.blocklevel + 1,
                                     !.block_indent = f.block_pos],
                      [f EXCEPT !.pc = "ret", !.saved_block_indent = parser.block_indent,
                                !.entry = OnEntry(parser)],
                      F_parser_func(f.func))
       ELSE Return([parser EXCEPT !.block_indent = f.saved_block_indent,
                                  !.blocklevel = parser.blocklevel - 1],
                   RV(ret.val))

parse_nested_block_from_next_line ==
    /\ Running("parse_nested_block_from_next_line")
    /\ LET f == Top
           p1 == [parser EXCEPT !.block_indent = parser.block_indent - 1]
       IN
       CASE f.pc = "start" ->
              Call([parser EXCEPT !.block_indent = parser.block_indent + 1,
                                  !.skip_comments = TRUE],
                   [f EXCEPT !.pc = "read", !.entry = OnEntry(parser)], F_read_block_line)
         [] f.pc = "read" ->
              IF _amw_end_of_block(ret.val)
              THEN Return(p1, RV(amw_parser_error(p1, p1.current_indent, "Empty block")))
              ELSE IF uw_error(ret.val) THEN Return(p1, RV(ret.val))
              ELSE Call(p1, [f EXCEPT !.pc = "ret"],
                        F_parse_nested_block(p1.block_indent + 1, f.func))
         [] f.pc = "ret" -> Return(parser, RV(ret.val))

---------------------------------------------------------------------------
(* Built-in block parsers: raw, literal, folded *)

parse_raw_value ==
    /\ Running("parse_raw_value")
    /\ LET f == Top
           lines == ret.val.items
       IN
       IF f.pc = "start" THEN Call(parser, [f EXCEPT !.pc = "lines"], F_read_block)
       ELSE IF uw_error(ret.val) THEN Return(parser, RV(ret.val))
       ELSE Return(parser, RV(UwString(uw_array_join(10,
                IF Len(lines) > 1 THEN Append(lines, <<>>) ELSE lines))))

keep_empty_trailing_lines(lines) == lines

RECURSIVE drop_empty_trailing_lines(_)
drop_empty_trailing_lines(lines) ==
    IF Len(lines) > 0 /\ uw_strlen(lines[Len(lines)]) = 0
    THEN drop_empty_trailing_lines(SubSeq(lines, 1, Len(lines) - 1))
    ELSE lines

\* parse_literal_string after _amw_read_block
literal_string(lines0) ==
    LET lines == drop_empty_trailing_lines(uw_array_dedent(lines0)) IN
    UwString(uw_array_join(10, IF Len(lines) > 1 THEN Append(lines, <<>>) ELSE lines))

parse_literal_string ==
    /\ Running("parse_literal_string")
    /\ LET f == Top IN
       IF f.pc = "start" THEN Call(parser, [f EXCEPT !.pc = "lines"], F_read_block)
       ELSE IF uw_error(ret.val) THEN Return(parser, RV(ret.val))
       ELSE Return(parser, RV(literal_string(ret.val.items)))

parse_folded_string ==
    /\ Running("parse_folded_string")
    /\ LET f == Top IN
       IF f.pc = "start" THEN Call(parser, [f EXCEPT !.pc = "lines"], F_read_block)
       ELSE IF uw_error(ret.val) THEN Return(parser, RV(ret.val))
       ELSE Return(parser, RV(fold_lines(ret.val.items, 0, <<>>)))

---------------------------------------------------------------------------
(* Built-in block parsers: datetime, timestamp *)

UwDateTime(year, month, day, hour, minute, second, nanosecond, gmt_offset) ==
    [t |-> "DateTime", year |-> year, month |-> month, day |-> day, hour |-> hour,
     minute |-> minute, second |-> second, nanosecond |-> nanosecond,
     gmt_offset |-> gmt_offset]
UwTimestamp(seconds, nanoseconds) ==
    [t |-> "Timestamp", ts_seconds |-> seconds, ts_nanoseconds |-> nanoseconds]

\* the loop of parse_nanosecond_frac: returns [ok, v, pos]
RECURSIVE nanosecond_digits(_, _, _, _)
nanosecond_digits(line, p, i, nanoseconds) ==
    LET chr == uw_char_at(line, p) IN
    IF end_of_line(line, p) \/ ~uw_isdigit(chr)
    THEN [ok |-> TRUE, v |-> nanoseconds * 10^(9 - i), pos |-> p]
    ELSE IF i = 9 THEN [ok |-> FALSE, v |-> 0, pos |-> p]
    ELSE nanosecond_digits(line, p + 1, i + 1, nanoseconds * 10 + (chr - 48))

parse_nanosecond_frac(ps, pos) == nanosecond_digits(ps.current_line, pos, 0, 0)

\* a for loop of parse_datetime over n digits: returns [ok, v, pos], pos
\* being the position of the character that is not a digit when ~ok
RECURSIVE datetime_digits(_, _, _, _)
datetime_digits(line, pos, n, v) ==
    LET chr == uw_char_at(line, pos) IN
    IF n = 0 THEN [ok |-> TRUE, v |-> v, pos |-> pos]
    ELSE IF ~uw_isdigit(chr) THEN [ok |-> FALSE, v |-> v, pos |-> pos]
    ELSE datetime_digits(line, pos + 1, n - 1, v * 10 + (chr - 48))

\* the position after an optional separator
skip_separator(line, pos, sep) == IF uw_char_at(line, pos) = sep THEN pos + 1 ELSE pos

\* parse_datetime from the label end_of_datetime
end_of_datetime(ps, pos0, result) ==
    LET pos == uw_string_skip_spaces(ps.current_line, pos0) IN
    IF ~end_of_line(ps.current_line, pos) /\ uw_char_at(ps.current_line, pos) # AMW_COMMENT
    THEN amw_parser_error(ps, pos, "Bad date/time")
    ELSE result

\* the body of parse_datetime: the value or the status it returns
datetime_value(ps) ==
    LET line == ps.current_line
        bad(pos) == amw_parser_error(ps, pos, "Bad date/time")
        year == datetime_digits(line, _amw_get_start_position(ps), 4, 0)
        month == datetime_digits(line, skip_separator(line, year.pos, Ord["-"]), 2, 0)
        day == datetime_digits(line, skip_separator(line, month.pos, Ord["-"]), 2, 0)
        spaced == uw_string_skip_spaces(line, day.pos)
        has_T == uw_char_at(line, day.pos) = Ord["T"]
        hour == datetime_digits(line, IF has_T THEN day.pos + 1 ELSE spaced, 2, 0)
        minute == datetime_digits(line, skip_separator(line, hour.pos, Ord[":"]), 2, 0)
        second == datetime_digits(line, skip_separator(line, minute.pos, Ord[":"]), 2, 0)
        has_frac == uw_char_at(line, second.pos) = Ord["."]
        frac == parse_nanosecond_frac(ps, second.pos + 1)
        nanosecond == IF has_frac THEN frac.v ELSE 0
        pos == IF has_frac THEN frac.pos ELSE second.pos
        chr == uw_char_at(line, pos)
        sign == IF chr = Ord["-"] THEN -1 ELSE 1
        offset_hour == datetime_digits(line, pos + 1, 2, 0)
        minute_pos == skip_separator(line, offset_hour.pos, Ord[":"])
        has_minute == ~end_of_line(line, minute_pos) /\ uw_isdigit(uw_char_at(line, minute_pos))
        offset_minute == datetime_digits(line, minute_pos, 2, 0)
        dt(h, m, s, ns, off) == UwDateTime(year.v, month.v, day.v, h, m, s, ns, off)
    IN  IF ~year.ok THEN bad(year.pos)
        ELSE IF ~month.ok THEN bad(month.pos)
        ELSE IF ~day.ok THEN bad(day.pos)
        ELSE IF ~has_T /\ (end_of_line(line, spaced) \/ uw_char_at(line, spaced) = AMW_COMMENT)
        THEN end_of_datetime(ps, spaced, dt(0, 0, 0, 0, 0))
        ELSE IF ~hour.ok THEN bad(hour.pos)
        ELSE IF ~minute.ok THEN bad(minute.pos)
        ELSE IF ~second.ok THEN bad(second.pos)
        ELSE IF uw_char_at(line, second.pos) = Ord["Z"]
        THEN end_of_datetime(ps, second.pos + 1, dt(hour.v, minute.v, second.v, 0, 0))
        ELSE IF has_frac /\ ~frac.ok THEN bad(frac.pos)
        ELSE IF chr = Ord["Z"]
        THEN end_of_datetime(ps, pos + 1, dt(hour.v, minute.v, second.v, nanosecond, 0))
        ELSE IF chr = Ord["+"] \/ chr = Ord["-"]
        THEN IF ~offset_hour.ok THEN bad(offset_hour.pos)
             ELSE IF has_minute /\ ~offset_minute.ok THEN bad(offset_minute.pos)
             ELSE end_of_datetime(ps, IF has_minute THEN offset_minute.pos ELSE minute_pos,
                      dt(hour.v, minute.v, second.v, nanosecond,
                         sign * offset_hour.v * 60 + (IF has_minute THEN offset_minute.v ELSE 0)))
        ELSE end_of_datetime(ps, pos, dt(hour.v, minute.v, second.v, nanosecond, 0))

parse_datetime ==
    /\ Running("parse_datetime")
    /\ Return(parser, RV(datetime_value(parser)))

\* the body of parse_timestamp: the value or the status it returns
timestamp_value(ps) ==
    LET line == ps.current_line
        seconds == parse_unsigned(ps, _amw_get_start_position(ps), 10)
        has_frac == uw_char_at(line, seconds.pos) = Ord["."]
        frac == parse_nanosecond_frac(ps, seconds.pos + 1)
        pos == IF has_frac THEN frac.pos ELSE seconds.pos
    IN  IF uw_error(seconds.val) THEN seconds.val
        ELSE IF end_of_line(line, seconds.pos) THEN UwTimestamp(seconds.val.u, 0)
        ELSE IF has_frac /\ ~frac.ok THEN amw_parser_error(ps, frac.pos, "Bad timestamp")
        ELSE IF _amw_comment_or_end_of_line(ps, pos)
        THEN UwTimestamp(seconds.val.u, IF has_frac THEN frac.v ELSE 0)
        ELSE amw_parser_error(ps, pos, "Bad timestamp")

parse_timestamp ==
    /\ Running("parse_timestamp")
    /\ Return(parser, RV(timestamp_value(parser)))

---------------------------------------------------------------------------
(* Quoted strings *)

\* parse_quoted_string after its loop has ended without a closing quote:
\* the block is restored and one more line is read
quoted_string_finish(f) ==
    Call([parser EXCEPT !.block_indent = f.saved_block_indent,
                        !.blocklevel = parser.blocklevel - 1],
         [f EXCEPT !.pc = "tail"], F_read_block_line)

\* one iteration of the loop of parse_quoted_string, up to its read;
\* p is the parser, its block_indent being the block of the string
quoted_string_iter(f, p) ==
    LET block_indent == f.opening_quote_pos + 1
        line == p.current_line
        end_pos == _amw_find_closing_quote(line, f.quote, block_indent)
        numbers == Append(f.line_numbers, p.line_number)
        final_line == uw_string_rtrim(uw_substr(line, block_indent, end_pos))
    IN  IF end_pos # -1
        THEN LET f1 == [f EXCEPT !.line_numbers = numbers, !.lines = Append(f.lines, final_line)]
                 p1 == [p EXCEPT !.block_indent = f.saved_block_indent,
                                 !.blocklevel = p.blocklevel - 1]
             IN  Return(p1, R(fold_lines(f1.lines, f1.quote, f1.line_numbers), end_pos + 1, UwNull))
        ELSE Call(p,
                  [f EXCEPT !.pc = "read", !.line_numbers = numbers,
                            !.lines = Append(f.lines, uw_substr(line, block_indent, Len(line)))],
                  F_read_block_line)

parse_quoted_string ==
    /\ Running("parse_quoted_string")
    /\ LET f == Top
           line == parser.current_line
           quote == uw_char_at(line, f.opening_quote_pos)
           end_pos == _amw_find_closing_quote(line, quote, f.opening_quote_pos + 1)
       IN
       CASE f.pc = "start" ->
              IF end_pos # -1
              THEN \* single-line string
                   Return(parser, R(_amw_unescape_line(line, parser.line_number, quote,
                                                       f.opening_quote_pos + 1).val,
                                    end_pos + 1, UwNull))
              ELSE quoted_string_iter(
                       [f EXCEPT !.quote = quote, !.saved_block_indent = parser.block_indent,
                                 !.entry = OnEntry(parser)],
                       [parser EXCEPT !.block_indent = f.opening_quote_pos + 1,
                                      !.blocklevel = parser.blocklevel + 1])
         [] f.pc = "read" ->
              IF _amw_end_of_block(ret.val) THEN quoted_string_finish(f)
              ELSE IF uw_error(ret.val) THEN Return(parser, RV(ret.val))
              ELSE quoted_string_iter(f, parser)
         [] f.pc = "tail" ->
              IF _amw_end_of_block(ret.val)
              THEN Return(parser, RV(amw_parser_error(parser, parser.current_indent,
                                                      "String has no closing quote")))
              ELSE IF parser.current_indent = f.opening_quote_pos
                      /\ uw_char_at(line, parser.current_indent) = f.quote
              THEN Return(parser, R(fold_lines(f.lines, f.quote, f.line_numbers),
                                    f.opening_quote_pos + 1, UwNull))
              ELSE Return(parser, RV(amw_parser_error(parser, parser.current_indent,
                                                      "String has no closing quote")))

---------------------------------------------------------------------------
(* Lists and maps *)

\* the body of parse_list's loop up to the call that parses the item
list_item(f) ==
    LET next_pos == f.item_indent + 1 IN
    IF ~isspace_or_eol_at(parser.current_line, next_pos)
    THEN Return(parser, RV(amw_parser_error(parser, f.item_indent, "Bad list item")))
    ELSE IF _amw_comment_or_end_of_line(parser, next_pos)
    THEN Call(parser, [f EXCEPT !.pc = "item"],
              F_parse_nested_block_from_next_line("value_parser_func"))
    ELSE Call(parser, [f EXCEPT !.pc = "item"],
              F_parse_nested_block(next_pos + 1, "value_parser_func"))

parse_list ==
    /\ Running("parse_list")
    /\ LET f == Top IN
       CASE f.pc = "start" ->
              list_item([f EXCEPT !.item_indent = _amw_get_start_position(parser)])
         [] f.pc = "item" ->
              IF uw_error(ret.val) THEN Return(parser, RV(ret.val))
              ELSE Call(parser,
                        [f EXCEPT !.pc = "read", !.result = uw_array_append(f.result, ret.val)],
                        F_read_block_line)
         [] f.pc = "read" ->
              IF _amw_end_of_block(ret.val) THEN Return(parser, RV(f.result))
              ELSE IF uw_error(ret.val) THEN Return(parser, RV(ret.val))
              ELSE IF parser.current_indent # f.item_indent
              THEN Return(parser, RV(amw_parser_error(parser, parser.current_indent,
                                                      "Bad indentation of list item")))
              ELSE list_item(f)

\* the first half of parse_map's loop: the call that parses the value
map_value(f) ==
    LET parser_func == IF uw_is_string(f.convspec) THEN get_custom_parser(f.convspec)
                       ELSE "value_parser_func"
    IN  IF _amw_comment_or_end_of_line(parser, f.value_pos)
        THEN Call(parser, [f EXCEPT !.pc = "value"],
                  F_parse_nested_block_from_next_line(parser_func))
        ELSE Call(parser, [f EXCEPT !.pc = "value"],
                  F_parse_nested_block(f.value_pos, parser_func))

parse_map ==
    /\ Running("parse_map")
    /\ LET f == Top IN
       CASE f.pc = "start" ->
              map_value([f EXCEPT !.key_indent = _amw_get_start_position(parser)])
         [] f.pc = "value" ->
              IF uw_error(ret.val) THEN Return(parser, RV(ret.val))
              ELSE Call(parser,
                        [f EXCEPT !.pc = "read", !.key = UwNull, !.convspec = UwNull,
                                  !.result = uw_map_update(f.result, f.key, ret.val)],
                        F_read_block_line)
         [] f.pc = "read" ->
              IF _amw_end_of_block(ret.val) THEN Return(parser, RV(f.result))
              ELSE IF uw_error(ret.val) THEN Return(parser, RV(ret.val))
              ELSE IF parser.current_indent # f.key_indent
              THEN Return(parser, RV(amw_parser_error(parser, parser.current_indent,
                                                      "Bad indentation of map key")))
              ELSE Call(parser, [f EXCEPT !.pc = "key"],
                        F_parse_value(TRUE, f.value_pos, f.convspec))
         [] f.pc = "key" ->
              IF uw_error(ret.val) THEN Return(parser, RV(ret.val))
              ELSE map_value([f EXCEPT !.key = ret.val, !.value_pos = ret.pos,
                                       !.convspec = ret.aux])

---------------------------------------------------------------------------
(* Values *)

check_value_end ==
    /\ Running("check_value_end")
    /\ LET f == Top
           line == parser.current_line
           end_pos == uw_string_skip_spaces(line, f.end_pos)
           chr == uw_char_at(line, end_pos)
           kv == is_kv_separator(parser, end_pos)
           err(pos, desc) == Return(parser, R(amw_parser_error(parser, pos, desc), f.vp, f.cs))
       IN
       CASE f.pc = "start" ->
              IF uw_error(f.value) THEN Return(parser, R(f.value, f.vp, f.cs))
              ELSE IF end_of_line(line, end_pos)
              THEN IF f.nvp THEN err(end_pos, "Map key expected")
                   ELSE Call(parser, [f EXCEPT !.pc = "read"], F_read_block_line)
              ELSE IF chr = Ord[":"]
              THEN IF kv.kvs
                   THEN IF f.nvp THEN Return(parser, R(f.value, kv.pos, kv.cs))
                        ELSE Call(parser, [f EXCEPT !.pc = "ret"],
                                  F_parse_map(f.value, kv.cs, kv.pos))
                   ELSE err(end_pos + 1, "Bad character encountered")
              ELSE IF chr # AMW_COMMENT THEN err(end_pos, "Bad character encountered")
              ELSE Call(parser, [f EXCEPT !.pc = "read"], F_read_block_line)
         [] f.pc = "read" ->
              IF ~_amw_end_of_block(ret.val) /\ uw_error(ret.val)
              THEN Return(parser, R(ret.val, f.vp, f.cs))
              ELSE Return(parser, R(f.value, f.vp, f.cs))
         [] f.pc = "ret" -> Return(parser, R(ret.val, f.vp, f.cs))

\* the loop of parse_value that looks for a key-value separator from `pos`:
\* returns [found, colon_pos, kv]
RECURSIVE find_kv_separator(_, _)
find_kv_separator(ps, pos) ==
    LET colon_pos == uw_strchr(ps.current_line, Ord[":"], pos)
        kv == is_kv_separator(ps, colon_pos)
    IN  IF colon_pos = -1 THEN [found |-> FALSE, colon_pos |-> 0, kv |-> kv]
        ELSE IF kv.kvs THEN [found |-> TRUE, colon_pos |-> colon_pos, kv |-> kv]
        ELSE find_kv_separator(ps, colon_pos + 1)

\* parse_value from the label parse_literal_string_or_map
literal_string_or_map(f, start_pos) ==
    LET sep == find_kv_separator(parser, start_pos)
        key == UwString(uw_string_rtrim(uw_substr(parser.current_line, start_pos, sep.colon_pos)))
    IN  IF sep.found
        THEN IF f.nvp THEN Return(parser, R(key, sep.kv.pos, sep.kv.cs))
             ELSE Call(parser, [f EXCEPT !.pc = "ret"], F_parse_map(key, sep.kv.cs, sep.kv.pos))
        ELSE IF f.nvp
        THEN Return(parser, R(amw_parser_error(parser, parser.current_indent, "Not a key"), f.vp, f.cs))
        ELSE Call(parser, [f EXCEPT !.pc = "ret"], F("parse_literal_string"))

\* the scalar checked by check_value_end
value_end(f, value, end_pos) ==
    Call(parser, [f EXCEPT !.pc = "ret"], F_check_value_end(value, end_pos, f.nvp, f.vp, f.cs))

parse_value_start(f) ==
    LET line == parser.current_line
        start_pos == _amw_get_start_position(parser)
        chr == uw_char_at(line, start_pos)
        next_chr == uw_char_at(line, start_pos + 1)
        err(pos, desc) == Return(parser, R(amw_parser_error(parser, pos, desc), f.vp, f.cs))
        convspec == parse_convspec(parser, start_pos, 0)
        negative == _amw_parse_number(parser, start_pos + 1, -1, number_terminators)
        num_pos == IF chr = Ord["+"] /\ uw_isdigit(next_chr) THEN start_pos + 1 ELSE start_pos
        number == _amw_parse_number(parser, num_pos, 1, number_terminators)
    IN
    IF chr = Ord[":"]
    THEN IF f.nvp THEN err(start_pos, "Map key expected and it cannot start with colon")
         ELSE IF ~uw_is_string(convspec.val)
         THEN Call(parser, [f EXCEPT !.pc = "ret"], F("parse_literal_string"))
         ELSE IF end_of_line(line, convspec.pos)
         THEN Call(parser, [f EXCEPT !.pc = "conv_read", !.cs = convspec.val], F_read_block_line)
         ELSE Call(parser, [f EXCEPT !.pc = "ret"],
                   F_parse_nested_block(convspec.pos, get_custom_parser(convspec.val)))
    ELSE IF chr = Ord["-"]
    THEN IF uw_isdigit(next_chr) THEN value_end(f, negative.val, negative.pos)
         ELSE IF isspace_or_eol_at(line, start_pos + 1)
         THEN IF f.nvp THEN err(start_pos, "Map key expected and it cannot be a list")
              ELSE Call(parser, [f EXCEPT !.pc = "ret"], F_parse_list)
         ELSE literal_string_or_map(f, start_pos)
    ELSE IF chr = Ord["\""] \/ chr = Ord["'"]
    THEN Call(parser, [f EXCEPT !.pc = "quoted", !.start_line = parser.line_number],
              F_parse_quoted_string(start_pos))
    ELSE IF uw_substring_eq(line, start_pos, start_pos + 4, L(<<"n", "u", "l", "l">>))
    THEN value_end(f, UwNull, start_pos + 4)
    ELSE IF uw_substring_eq(line, start_pos, start_pos + 4, L(<<"t", "r", "u", "e">>))
    THEN value_end(f, UwBool(TRUE), start_pos + 4)
    ELSE IF uw_substring_eq(line, start_pos, start_pos + 5, L(<<"f", "a", "l", "s", "e">>))
    THEN value_end(f, UwBool(FALSE), start_pos + 5)
    ELSE IF uw_isdigit(uw_char_at(line, num_pos)) /\ (num_pos # start_pos \/ uw_isdigit(chr))
    THEN value_end(f, number.val, number.pos)
    ELSE literal_string_or_map(f, start_pos)

parse_value ==
    /\ Running("parse_value")
    /\ LET f == Top IN
       CASE f.pc = "start" -> parse_value_start(f)
         [] f.pc = "conv_read" ->
              IF _amw_end_of_block(ret.val)
              THEN Return(parser, R(amw_parser_error(parser, parser.current_indent, "Empty block"),
                                    f.vp, UwNull))
              ELSE IF uw_error(ret.val) THEN Return(parser, R(ret.val, f.vp, UwNull))
              ELSE Call(parser, [f EXCEPT !.pc = "ret", !.cs = UwNull],
                        F_parser_func(get_custom_parser(f.cs)))
         [] f.pc = "quoted" ->
              IF uw_error(ret.val) THEN Return(parser, R(ret.val, f.vp, f.cs))
              ELSE IF parser.line_number = f.start_line
              THEN Call(parser, [f EXCEPT !.pc = "ret"],
                        F_check_value_end(ret.val, ret.pos, f.nvp, f.vp, f.cs))
              ELSE IF _amw_comment_or_end_of_line(parser, ret.pos)
              THEN Return(parser, R(ret.val, f.vp, f.cs))
              ELSE Return(parser, R(amw_parser_error(parser, ret.pos, "Bad character after quoted string"),
                                    f.vp, f.cs))
         [] f.pc = "ret" -> Return(parser, ret)

---------------------------------------------------------------------------
(* JSON sub-parser (amw_json.c) *)

F_skip_spaces(pos) == [fn |-> "skip_spaces", pc |-> "start", pos |-> pos]
F_parse_json_value(start_pos) ==
    [fn |-> "_amw_parse_json_value", pc |-> "start", start_pos |-> start_pos]
F_parse_array(start_pos) ==
    [fn |-> "parse_array", pc |-> "start", start_pos |-> start_pos, result |-> UwArray(<<>>)]
F_parse_object(start_pos) ==
    [fn |-> "parse_object", pc |-> "start", start_pos |-> start_pos, result |-> UwMap(<<>>)]
F_parse_object_member(pos, result) ==
    [fn |-> "parse_object_member", pc |-> "start", pos |-> pos, result |-> result, key |-> UwNull]

\* one iteration of the loop of skip_spaces, *pos being `pos0`
skip_spaces_iter(f, pos0) ==
    LET line == parser.current_line
        pos == uw_string_skip_spaces(line, pos0)
        chr == uw_char_at(line, pos)
    IN  IF uw_string_index_valid(line, pos) /\ chr # Ord["#"]
        THEN Return(parser, R(UwUnsigned(chr), pos, UwNull))
        ELSE Call(parser, [f EXCEPT !.pc = "read", !.pos = pos], F_read_block_line)

skip_spaces ==
    /\ Running("skip_spaces")
    /\ LET f == Top IN
       IF f.pc = "start" THEN skip_spaces_iter(f, f.pos)
       ELSE IF _amw_end_of_block(ret.val)
       THEN Return(parser, R(amw_parser_error(parser, parser.current_indent, "Unexpected end of block"),
                             f.pos, UwNull))
       ELSE skip_spaces_iter(f, parser.current_indent)

\* parse_number of amw_json.c: returns [val, pos]
json_parse_number(ps, start_pos) ==
    LET chr == uw_char_at(ps.current_line, start_pos)
        sign == IF chr = Ord["-"] THEN -1 ELSE 1
    IN  _amw_parse_number(ps, start_pos, sign, json_number_terminators)

\* parse_string of amw_json.c: returns [val, pos]
json_parse_string(ps, start_pos) ==
    LET end_pos == _amw_find_closing_quote(ps.current_line, Ord["\""], start_pos + 1) IN
    IF end_pos # -1
    THEN [val |-> _amw_unescape_line(ps.current_line, ps.line_number, Ord["\""], start_pos + 1).val,
          pos |-> end_pos + 1]
    ELSE [val |-> amw_parser_error(ps, ps.current_indent, "String has no closing quote"),
          pos |-> start_pos]

parse_array ==
    /\ Running("parse_array")
    /\ LET f == Top
           done == Return([parser EXCEPT !.json_depth = parser.json_depth - 1],
                          R(f.result, ret.pos + 1, UwNull))
       IN
       CASE f.pc = "start" ->
              Call([parser EXCEPT !.json_depth = parser.json_depth + 1],
                   [f EXCEPT !.pc = "first"], F_skip_spaces(f.start_pos))
         [] f.pc = "first" ->
              IF uw_error(ret.val) THEN Return(parser, RV(ret.val))
              ELSE IF ret.val.u = Ord["]"] THEN done
              ELSE Call(parser, [f EXCEPT !.pc = "item"], F_parse_json_value(ret.pos))
         [] f.pc = "item" ->
              IF uw_error(ret.val) THEN Return(parser, RV(ret.val))
              ELSE Call(parser, [f EXCEPT !.pc = "sep", !.result = uw_array_append(f.result, ret.val)],
                        F_skip_spaces(ret.pos))
         [] f.pc = "sep" ->
              IF uw_error(ret.val) THEN Return(parser, RV(ret.val))
              ELSE IF ret.val.u = Ord["]"] THEN done
              ELSE IF ret.val.u # Ord[","]
              THEN Return(parser, RV(amw_parser_error(parser, parser.current_indent,
                                                      "Array items must be separated with comma")))
              ELSE Call(parser, [f EXCEPT !.pc = "item"], F_parse_json_value(ret.pos + 1))

parse_object_member ==
    /\ Running("parse_object_member")
    /\ LET f == Top
           key == json_parse_string(parser, f.pos)
       IN
       CASE f.pc = "start" ->
              IF uw_error(key.val) THEN Return(parser, R(key.val, f.pos, f.result))
              ELSE Call(parser, [f EXCEPT !.pc = "colon", !.key = key.val], F_skip_spaces(key.pos))
         [] f.pc = "colon" ->
              IF uw_error(ret.val) THEN Return(parser, R(ret.val, ret.pos, f.result))
              ELSE IF ret.val.u # Ord[":"]
              THEN Return(parser, R(amw_parser_error(parser, parser.current_indent,
                                        "Values must be separated from keys with colon"),
                                    ret.pos, f.result))
              ELSE Call(parser, [f EXCEPT !.pc = "value"], F_parse_json_value(ret.pos + 1))
         [] f.pc = "value" ->
              IF uw_error(ret.val) THEN Return(parser, R(ret.val, ret.pos, f.result))
              ELSE Return(parser, R(UwOK, ret.pos, uw_map_update(f.result, f.key, ret.val)))

parse_object ==
    /\ Running("parse_object")
    /\ LET f == Top
           done == Return([parser EXCEPT !.json_depth = parser.json_depth - 1],
                          R(f.result, ret.pos + 1, UwNull))
       IN
       CASE f.pc = "start" ->
              Call([parser EXCEPT !.json_depth = parser.json_depth + 1],
                   [f EXCEPT !.pc = "first"], F_skip_spaces(f.start_pos))
         [] f.pc = "first" ->
              IF uw_error(ret.val) THEN Return(parser, RV(ret.val))
              ELSE IF ret.val.u = Ord["}"] THEN done
              ELSE Call(parser, [f EXCEPT !.pc = "member"], F_parse_object_member(ret.pos, f.result))
         [] f.pc = "member" ->
              IF uw_error(ret.val) THEN Return(parser, RV(ret.val))
              ELSE Call(parser, [f EXCEPT !.pc = "sep", !.result = ret.aux], F_skip_spaces(ret.pos))
         [] f.pc = "sep" ->
              IF uw_error(ret.val) THEN Return(parser, RV(ret.val))
              ELSE IF ret.val.u = Ord["}"] THEN done
              ELSE IF ret.val.u # Ord[","]
              THEN Return(parser, RV(amw_parser_error(parser, parser.current_indent,
                                                      "Object members must be separated with comma")))
              ELSE Call(parser, [f EXCEPT !.pc = "next"], F_skip_spaces(ret.pos + 1))
         [] f.pc = "next" ->
              IF uw_error(ret.val) THEN Return(parser, RV(ret.val))
              ELSE Call(parser, [f EXCEPT !.pc = "member"], F_parse_object_member(ret.pos, f.result))

_amw_parse_json_value ==
    /\ Running("_amw_parse_json_value")
    /\ LET f == Top
           line == parser.current_line
           start_pos == ret.pos
           chr == ret.val.u
           number == json_parse_number(parser, start_pos)
           string == json_parse_string(parser, start_pos)
       IN
       CASE f.pc = "start" ->
              IF parser.json_depth >= parser.max_json_depth
              THEN Return(parser, RV(amw_parser_error(parser, parser.current_indent,
                                                      "Maximum recursion depth exceeded")))
              ELSE Call(parser, [f EXCEPT !.pc = "first_char"], F_skip_spaces(f.start_pos))
         [] f.pc = "first_char" ->
              IF uw_error(ret.val) THEN Return(parser, RV(ret.val))
              ELSE IF chr = Ord["["]
              THEN Call(parser, [f EXCEPT !.pc = "ret"], F_parse_array(start_pos + 1))
              ELSE IF chr = Ord["{"]
              THEN Call(parser, [f EXCEPT !.pc = "ret"], F_parse_object(start_pos + 1))
              ELSE IF chr = Ord["\""] THEN Return(parser, R(string.val, string.pos, UwNull))
              ELSE IF chr = Ord["+"] \/ chr = Ord["-"] \/ uw_isdigit(chr)
              THEN Return(parser, R(number.val, number.pos, UwNull))
              ELSE IF uw_substring_eq(line, start_pos, start_pos + 4, L(<<"n", "u", "l", "l">>))
              THEN Return(parser, R(UwNull, start_pos + 4, UwNull))
              ELSE IF uw_substring_eq(line, start_pos, start_pos + 4, L(<<"t", "r", "u", "e">>))
              THEN Return(parser, R(UwBool(TRUE), start_pos + 4, UwNull))
              ELSE IF uw_substring_eq(line, start_pos, start_pos + 5, L(<<"f", "a", "l", "s", "e">>))
              THEN Return(parser, R(UwBool(FALSE), start_pos + 5, UwNull))
              ELSE Return(parser, RV(amw_parser_error(parser, start_pos, "Unexpected character")))
         [] f.pc = "ret" -> Return(parser, ret)

_amw_json_parser_func ==
    /\ Running("_amw_json_parser_func")
    /\ LET f == Top
           garbage == amw_parser_error(parser, parser.current_indent, "Gabage after JSON value")
       IN
       CASE f.pc = "start" ->
              Call(parser, [pc |-> "value", fn |-> f.fn, result |-> UwNull],
                   F_parse_json_value(_amw_get_start_position(parser)))
         [] f.pc = "value" ->
              IF uw_error(ret.val) THEN Return(parser, RV(ret.val))
              ELSE IF _amw_comment_or_end_of_line(parser, ret.pos)
              THEN Call(parser, [f EXCEPT !.pc = "read", !.result = ret.val], F_read_block_line)
              ELSE Return(parser, RV(garbage))
         [] f.pc = "read" ->
              IF ~_amw_end_of_block(ret.val) THEN Return(parser, RV(garbage))
              ELSE Return(parser, RV(f.result))

---------------------------------------------------------------------------
(* Parser construction and destruction *)

UwPtr(p) == [t |-> "Ptr", ptr |-> p]
Crash == [t |-> "Crash"]

F_create_parser(fail) == [fn |-> "amw_create_parser", pc |-> "start", fail |-> fail]
F_delete_parser(ptr) == [fn |-> "amw_delete_parser", pc |-> "start", ptr |-> ptr]

\* f.fail is the step of the construction that fails
amw_create_parser ==
    /\ Running("amw_create_parser")
    /\ LET f == Top IN
       CASE f.pc = "start" /\ f.fail = "allocate" ->
              /\ Return(parser, RV(UwPtr("null")))
         [] f.pc = "start" /\ f.fail = "none" ->
              /\ parser' = NewParser
              /\ allocated' = allocated + 1
              /\ stack' = SubSeq(stack, 1, Len(stack) - 1)
              /\ ret' = RV(UwPtr("valid"))
              /\ UNCHANGED <<calls, results, markup, src, parser_ptr, delete_log>>
         [] f.pc = "start" /\ f.fail \notin {"allocate", "none"} ->
              \* goto error
              /\ parser' = NewParser
              /\ allocated' = allocated + 1
              /\ stack' = [stack EXCEPT ![Len(stack)] = [f EXCEPT !.pc = "error"]]
                          \o <<F_delete_parser("valid")>>
              /\ UNCHANGED <<calls, results, markup, src, parser_ptr, delete_log, ret>>
         [] f.pc = "error" -> Return(parser, RV(UwPtr("null")))

\* amw_delete_parser dereferences *parser_ptr without a null check: with a
\* null pointer the behaviour is undefined, the process dies or goes on
amw_delete_parser ==
    /\ Running("amw_delete_parser")
    /\ LET f == Top IN
       /\ delete_log' = Append(delete_log, f.ptr)
       /\ IF f.ptr = "null"
          THEN \/ /\ stack' = <<>>
                  /\ calls' = <<>>
                  /\ results' = Append(results, [call |-> stack[1].call, outcome |-> Crash])
                  /\ UNCHANGED <<parser_ptr>>
               \/ /\ stack' = SubSeq(stack, 1, Len(stack) - 1)
                  /\ UNCHANGED <<calls, results, parser_ptr>>
          ELSE /\ stack' = SubSeq(stack, 1, Len(stack) - 1)
               /\ parser_ptr' = IF Len(stack) = 2 THEN "null" ELSE parser_ptr
               /\ UNCHANGED <<calls, results>>
       /\ UNCHANGED <<markup, src, parser, allocated, ret>>

---------------------------------------------------------------------------
(* Entry points *)

\* a return of an entry point: the gnu::cleanup attribute runs
\* amw_delete_parser on the local `parser`, then the caller gets `outcome`
Finish(f, outcome) ==
    Call(parser, [f EXCEPT !.pc = "done", !.outcome = outcome], F_delete_parser(parser_ptr))

Done(f) ==
    /\ results' = Append(results, [call |-> f.call, outcome |-> f.outcome])
    /\ stack' = <<>>
    /\ UNCHANGED <<calls, markup, src, parser, parser_ptr, delete_log, allocated, ret>>

\* AmwParser* parser = amw_create_parser(markup)
Created(f) ==
    /\ parser_ptr' = ret.val.ptr
    /\ stack' = [stack EXCEPT ![Len(stack)] = [f EXCEPT !.pc = "created"]]
    /\ UNCHANGED <<calls, results, markup, src, parser, delete_log, allocated, ret>>

\* the check that the markup has no more data, after _amw_read_block_line
no_more_data(f) ==
    IF parser.eof THEN Finish(f, f.result)
    ELSE IF uw_error(ret.val) THEN Finish(f, ret.val)
    ELSE Finish(f, amw_parser_error(parser, parser.current_indent, "Extra data after parsed value"))

amw_parse ==
    /\ Running("amw_parse")
    /\ LET f == Top IN
       CASE f.pc = "start" -> Call(parser, [f EXCEPT !.pc = "create"], F_create_parser(f.call.create_fail))
         [] f.pc = "create" -> Created(f)
         [] f.pc = "created" ->
              IF parser_ptr = "null" THEN Finish(f, UwOOM)
              ELSE Call(parser, [f EXCEPT !.pc = "first_read"], F_read_block_line)
         [] f.pc = "first_read" ->
              IF _amw_end_of_block(ret.val) /\ parser.eof THEN Finish(f, UwError("UW_ERROR_EOF"))
              ELSE IF uw_error(ret.val) THEN Finish(f, ret.val)
              ELSE Call(parser, [f EXCEPT !.pc = "value"], F_parser_func("value_parser_func"))
         [] f.pc = "value" ->
              IF uw_error(ret.val) THEN Finish(f, ret.val)
              ELSE Call(parser, [f EXCEPT !.pc = "tail", !.result = ret.val], F_read_block_line)
         [] f.pc = "tail" -> no_more_data(f)
         [] f.pc = "done" -> Done(f)

amw_parse_json ==
    /\ Running("amw_parse_json")
    /\ LET f == Top IN
       CASE f.pc = "start" -> Call(parser, [f EXCEPT !.pc = "create"], F_create_parser(f.call.create_fail))
         [] f.pc = "create" -> Created(f)
         [] f.pc = "created" ->
              IF parser_ptr = "null" THEN Finish(f, UwOOM)
              ELSE Call(parser, [f EXCEPT !.pc = "first_read"], F_read_block_line)
         [] f.pc = "first_read" ->
              IF uw_error(ret.val) THEN Finish(f, ret.val)
              ELSE Call(parser, [f EXCEPT !.pc = "value"], F_parse_json_value(0))
         [] f.pc = "value" ->
              IF uw_error(ret.val) THEN Finish(f, ret.val)
              ELSE IF ~_amw_comment_or_end_of_line(parser, ret.pos)
              THEN Finish(f, amw_parser_error(parser, parser.current_indent,
                                              "Extra data after parsed value"))
              ELSE Call(parser, [f EXCEPT !.pc = "tail", !.result = ret.val], F_read_block_line)
         [] f.pc = "tail" -> no_more_data(f)
         [] f.pc = "done" -> Done(f)

---------------------------------------------------------------------------
(* Client program: a sequence of API calls, each on its own markup *)

ApiCall(api, doc, io_at, sticky, create_fail) ==
    [api |-> api, markup |-> doc, io_at |-> io_at, sticky |-> sticky, create_fail |-> create_fail]

Invoke ==
    /\ stack = <<>>
    /\ calls # <<>>
    /\ LET c == Head(calls) IN
       /\ calls' = Tail(calls)
       /\ markup' = c.markup
       /\ src' = NewSource(c.io_at, c.sticky)
       /\ stack' = <<[fn |-> c.api, pc |-> "start", call |-> c, result |-> UwNull, outcome |-> UwNull]>>
    /\ UNCHANGED <<results, parser, parser_ptr, delete_log, allocated, ret>>

---------------------------------------------------------------------------
(* Specification *)

InitWith(program) ==
    /\ calls = program
    /\ results = <<>>
    /\ markup = <<>>
    /\ src = NewSource(0, FALSE)
    /\ parser = NewParser
    /\ parser_ptr = "null"
    /\ delete_log = <<>>
    /\ allocated = 0
    /\ stack = <<>>
    /\ ret = RV(UwNull)

---------------------------------------------------------------------------
(* Documents the client parses *)

MaxLines == 3
MaxItems == 2

Spaces(n) == [i \in 1..n |-> 32]
Indent(n, line) == Spaces(n) \o line
SeqsUpTo(S, n) == UNION {[1..m -> S] : m \in 0..n}

RECURSIVE Repeat(_, _)
Repeat(s, n) == IF n = 0 THEN <<>> ELSE s \o Repeat(s, n - 1)

\* decimal digits of a natural number
RECURSIVE Digits(_)
Digits(n) == IF n < 10 THEN <<48 + n>> ELSE Digits(n \div 10) \o <<48 + (n % 10)>>

\* "key: value" at a column
Keys == {L(<<"a">>), L(<<"b">>)}
KVValues == {L(<<"1">>), L(<<"2">>), L(<<"x">>)}
KVColumns == {0, 2}
KVLine(col, k, v) == Indent(col, k \o L(<<":", " ">>) \o v)
KVPairs == Keys \X KVValues

\* documents of "key: value" lines that all start at one column
KVDoc(col, kvs) == [i \in 1..Len(kvs) |-> KVLine(col, kvs[i][1], kvs[i][2])]
KVDocs == {KVDoc(col, kvs) : col \in KVColumns, kvs \in SeqsUpTo(KVPairs, MaxLines) \ {<<>>}}

\* documents of "- value" lines that all start at one column
ListValues == {L(<<"1">>), L(<<"-", "3">>), L(<<"x">>)}
ListColumns == {0, 2}
ListLine(col, v) == Indent(col, L(<<"-", " ">>) \o v)
ListDoc(col, vs) == [i \in 1..Len(vs) |-> ListLine(col, vs[i])]
ListDocs == {ListDoc(col, vs) : col \in ListColumns, vs \in SeqsUpTo(ListValues, MaxLines) \ {<<>>}}

\* two sibling list items or map entries at one column with 0..MaxLines-1
\* blank lines between them
BlankSeparated(first, k, second) == <<first>> \o [i \in 1..k |-> <<>>] \o <<second>>
BlankCounts == 0..(MaxLines - 1)
BlankListDocs ==
    {BlankSeparated(ListLine(col, v1), k, ListLine(col, v2))
       : col \in ListColumns, k \in BlankCounts, v1 \in ListValues, v2 \in ListValues}
BlankMapDocs ==
    {BlankSeparated(KVLine(col, L(<<"a">>), v1), k, KVLine(col, L(<<"b">>), v2))
       : col \in KVColumns, k \in BlankCounts, v1 \in KVValues, v2 \in KVValues}
BlankDocs == BlankListDocs \cup BlankMapDocs

\* one-line documents that start with a reserved keyword: the keyword alone,
\* followed by a value terminator, or as the prefix of a longer word
Keywords == {L(<<"n", "u", "l", "l">>), L(<<"t", "r", "u", "e">>), L(<<"f", "a", "l", "s", "e">>)}
KeywordTails == {<<>>, L(<<" ", "#", "c">>), L(<<":", " ", "1">>), L(<<"a", "b", "l", "e">>),
                 L(<<"a", "b", "l", "e", ":", " ", "1">>), L(<<"i", "s", "h">>), L(<<"1">>)}
KeywordDocs == {<<kw \o tail>> : kw \in Keywords, tail \in KeywordTails}

\* one-line unsigned numbers in the four radixes, with values around the
\* largest unsigned value and beyond it
Radixes == {2, 8, 10, 16}
RadixPrefix(radix) ==
    IF radix = 2 THEN L(<<"0", "b">>)
    ELSE IF radix = 8 THEN L(<<"0", "o">>)
    ELSE IF radix = 16 THEN L(<<"0", "x">>)
    ELSE <<>>
DigitChar(d) == IF d < 10 THEN 48 + d ELSE 87 + d
RECURSIVE DigitsIn(_, _)
DigitsIn(n, radix) ==
    IF n < radix THEN <<DigitChar(n)>>
    ELSE DigitsIn(n \div radix, radix) \o <<DigitChar(n % radix)>>
UnsignedSamples ==
    {0, 1, UW_SIGNED_MAX, UW_SIGNED_MAX + 1, 2 * UW_UNSIGNED_MAX + 1, 2 * UW_UNSIGNED_MAX + 2,
     10 * UW_UNSIGNED_MAX + 9, 16 * UW_UNSIGNED_MAX + 15, 16 * (UW_UNSIGNED_MAX + 1),
     (UW_UNSIGNED_MAX + 1) * (UW_UNSIGNED_MAX + 1)}
        \cup ((UW_UNSIGNED_MAX - 10)..(UW_UNSIGNED_MAX + 20))
UnsignedDocs == {<<RadixPrefix(radix) \o DigitsIn(n, radix)>> : radix \in Radixes, n \in UnsignedSamples}

\* one-line numbers with digit separators: between digits, leading,
\* doubled, and trailing before end of line, a space, ':' and '#'
SeparatorBodies ==
    { L(<<"1", "_", "2">>), L(<<"1", "'", "2">>), L(<<"1", "_", "2", "'", "1">>),
      L(<<"_", "1">>), L(<<"'", "1">>), L(<<"1", "_", "_", "2">>), L(<<"1", "_", "'", "2">>),
      L(<<"1", "_">>), L(<<"1", "'">>), L(<<"1", "_", " ", "#", "c">>), L(<<"1", "_", "#", "c">>),
      L(<<"1", "_", ":", " ", "x">>), L(<<"1", "'", ":", " ", "x">>), L(<<"1", "_", "2", ":", " ", "x">>) }
SeparatorPrefixes == {<<>>, L(<<"0", "x">>)}
SeparatorDocs == {<<prefix \o body>> : prefix \in SeparatorPrefixes, body \in SeparatorBodies}

\* two-line quoted strings whose first line ends with a backslash
BackslashTexts == {L(<<"a">>), L(<<"a", " ", "b">>), L(<<"\\", "n">>)}
BackslashDoc(quote, t, u) == <<L(<<quote>>) \o t \o L(<<"\\">>), L(<<" ">>) \o u \o L(<<quote>>)>>
BackslashDocs ==
    {BackslashDoc(quote, t, u) : quote \in {"\"", "'"}, t \in BackslashTexts, u \in {L(<<"b">>)}}

\* blocks of 2..MaxLines non-empty lines under a top-level ":literal:"
\* line, with and without a trailing empty line
LiteralLines == {L(<<"x">>), L(<<" ", "y", " ", "y">>), L(<<" ", " ", "#", "c">>)}
LiteralBlocks == {b \in SeqsUpTo(LiteralLines, MaxLines) : Len(b) >= 2}
LiteralHead == L(<<":", "l", "i", "t", "e", "r", "a", "l", ":">>)
LiteralDocs ==
    {<<LiteralHead>> \o b \o e : b \in LiteralBlocks, e \in {<<>>, << <<>> >>}}

\* blocks of up to MaxLines lines under a top-level ":folded:" line:
\* lines at columns 0 and 1 and empty lines
FoldedLines == {L(<<"x">>), L(<<"y", " ", "z">>), L(<<" ", "w">>), <<>>}
FoldedBlocks == SeqsUpTo(FoldedLines, MaxLines) \ {<<>>}
FoldedHead == L(<<":", "f", "o", "l", "d", "e", "d", ":">>)
FoldedDocs == {<<FoldedHead>> \o b : b \in FoldedBlocks}

\* single-line quoted strings with one numeric escape \x, \u or \U:
\* <<kind, digits>> with the required number of hex digits, or fewer of
\* them, between a prefix and a suffix
HexEscapes ==
    { <<"x", L(<<"4", "1">>)>>, <<"x", L(<<"4", "a">>)>>, <<"x", L(<<"7", "F">>)>>,
      <<"u", L(<<"0", "0", "e", "9">>)>>, <<"u", L(<<"2", "0", "A", "C">>)>>,
      <<"U", L(<<"0", "0", "0", "1", "F", "6", "0", "0">>)>>,
      <<"U", L(<<"7", "f", "F", "f", "f", "f", "F", "F">>)>> }
HexLen(kind) == IF kind = "x" THEN 2 ELSE IF kind = "u" THEN 4 ELSE 8
EscapeCases ==
    { [quote |-> q, prefix |-> p, kind |-> e[1], digits |-> SubSeq(e[2], 1, Min(n, Len(e[2]))), suffix |-> s]
      : q \in {Ord["\""], Ord["'"]}, p \in {<<>>, L(<<"a">>)}, e \in HexEscapes,
        n \in 0..8, s \in {<<>>, L(<<"z">>)} }
EscapeLine(e) ==
    <<e.quote>> \o e.prefix \o <<Ord["\\"], Ord[e.kind]>> \o e.digits \o e.suffix \o <<e.quote>>
EscapeDocs == {<<EscapeLine(e)>> : e \in EscapeCases}

\* single-line quoted strings with one octal escape \o of 0..3 digits
\* between a prefix and a suffix; a suffix that starts with an octal
\* digit only after 3 digits
OctalDigits == {L(<<"1", "0", "1">>), L(<<"7", "2", "0">>), L(<<"3", "7", "7">>)}
OctalCases ==
    { [quote |-> q, prefix |-> p, digits |-> SubSeq(ds, 1, n), suffix |-> s]
      : q \in {Ord["\""], Ord["'"]}, p \in {<<>>, L(<<"a">>)}, ds \in OctalDigits,
        n \in 0..3, s \in {<<>>, L(<<"z">>), L(<<"8">>)} }
      \cup { [quote |-> q, prefix |-> <<>>, digits |-> ds, suffix |-> L(<<"1">>)]
             : q \in {Ord["\""], Ord["'"]}, ds \in OctalDigits }
OctalLine(e) ==
    <<e.quote>> \o e.prefix \o L(<<"\\", "o">>) \o e.digits \o e.suffix \o <<e.quote>>
OctalDocs == {<<OctalLine(e)>> : e \in OctalCases}

\* one date-time under a top-level ":datetime:" with a zone suffix:
\* none, Z, or a sign, two hour digits, an optional colon and optional
\* minute digits
ZoneHours == {0, 5, 12}
ZoneMinutes == {-1, 0, 30}  \* -1: no minute digits
ZoneSuffix(sign, hh, colon, mm) ==
    L(<<sign>>) \o DigitsIn(hh \div 10, 10) \o DigitsIn(hh % 10, 10)
        \o (IF colon THEN L(<<":">>) ELSE <<>>)
        \o (IF mm < 0 THEN <<>> ELSE DigitsIn(mm \div 10, 10) \o DigitsIn(mm % 10, 10))
DateTimeHead ==
    L(<<":", "d", "a", "t", "e", "t", "i", "m", "e", ":", " ",
        "2", "0", "2", "4", "-", "0", "1", "-", "0", "2", "T", "0", "3", ":", "0", "4", ":", "0", "5">>)
ZoneDocs ==
    {<<DateTimeHead \o ZoneSuffix(sign, hh, colon, mm)>>
       : sign \in {"+", "-"}, hh \in ZoneHours, colon \in BOOLEAN, mm \in ZoneMinutes}
      \cup {<<DateTimeHead>>, <<DateTimeHead \o L(<<"Z">>)>>}

\* single-line quoted strings: <<content, unescaped content>>, the content
\* with an escaped quote inside and with an escaped backslash at its end
QuotedContents ==
    { <<L(<<"a">>), L(<<"a">>)>>,
      <<L(<<"a", "\\", "\\", "b">>), L(<<"a", "\\", "b">>)>>,
      <<L(<<"a", "\\", "\\">>), L(<<"a", "\\">>)>>,
      <<L(<<"\\", "\\">>), L(<<"\\">>)>>,
      <<L(<<"\\", "\\", "\\", "\\">>), L(<<"\\", "\\">>)>> }
QuotedLine(quote, content, rest) == <<quote>> \o content \o <<quote>> \o rest
QuotedRests(quote) == {<<>>, L(<<" ", "#", "c">>), L(<<" ", "x">>) \o <<quote>>}
QuotedDocs ==
    {<<QuotedLine(q, t[1], rest)>> : q \in {Ord["\""], Ord["'"]}, t \in QuotedContents,
                                     rest \in QuotedRests(Ord["\""]) \cup QuotedRests(Ord["'"])}

\* lines of scalars, list items and map entries at several columns, a
\* comment and a blank line
MixedLines ==
    { L(<<"1">>), L(<<"-", " ", "1">>), Indent(2, L(<<"-", " ", "2">>)),
      KVLine(0, L(<<"a">>), L(<<"1">>)), KVLine(4, L(<<"b">>), L(<<"2">>)),
      L(<<"#", " ", "c">>), <<>> }

\* a one-line scalar followed by one more line
ScalarLines ==
    { L(<<"1">>), L(<<"-", "1">>), L(<<"t", "r", "u", "e">>), L(<<"n", "u", "l", "l">>),
      L(<<"\"", "s", "\"">>), L(<<"'", "s", "'">>) }
ScalarDocs == {<<s, e>> : s \in ScalarLines, e \in {L(<<"2">>), L(<<"x">>), Indent(2, L(<<"3">>))}}

AmwDocs == SeqsUpTo(MixedLines, MaxLines) \cup KVDocs \cup ScalarDocs

\* documents that exercise the block parsers: conversion specifiers, values
\* on the next line, multi-line quoted strings, nested lists and maps
SampleDocs ==
    { <<L(<<":", "r", "a", "w", ":">>), L(<<"x">>), L(<<" ", "y">>)>>,
      <<L(<<":", "l", "i", "t", "e", "r", "a", "l", ":", " ", "x">>), L(<<" ", "y">>), <<>>>>,
      <<L(<<":", "f", "o", "l", "d", "e", "d", ":">>), L(<<"x">>), L(<<"y">>)>>,
      <<L(<<"a", ":", ":", "r", "a", "w", ":", " ", "x">>), L(<<"b", ":", " ", ":", "j", "s", "o", "n", ":", " ", "[", "1", "]">>)>>,
      <<L(<<"-">>), L(<<" ", " ", "1">>), L(<<"-", " ", "-", " ", "2">>)>>,
      <<L(<<"-">>), <<>>, L(<<"#", " ", "c">>), L(<<" ", " ", "1">>)>>,
      <<L(<<"-">>), L(<<" ", "x">>)>>,
      <<L(<<"-", " ", "-">>), L(<<" ", " ", " ", "x">>)>>,
      <<L(<<" ", " ", "-", " ", "#", "c">>), L(<<" ", " ", "x">>)>>,
      <<L(<<" ", " ", "-">>), L(<<" ", " ", " ", " ", "x">>)>>,
      <<L(<<"a", ":">>), L(<<" ", " ", "#", " ", "c">>), L(<<" ", " ", "1">>), L(<<" ", "#", " ", "d">>), L(<<"b", ":", " ", "2">>)>>,
      <<L(<<"a", ":">>), L(<<" ", " ", "b", ":", " ", "1">>), L(<<"c", ":", " ", "\"", "s", "\"">>)>>,
      <<L(<<"\"", "s">>), L(<<" ", "t", "\"">>)>>,
      <<L(<<"\"", "s">>), L(<<" ", "t">>), L(<<"\"">>)>>,
      <<L(<<"\"", "s">>), L(<<" ", "t">>)>>,
      <<L(<<"'", "s", "\\", "n", "'", ":", " ", "1">>)>>,
      <<L(<<"x", " ", "y">>), L(<<"z">>)>>,
      <<L(<<":", "x">>)>>,
      <<L(<<":", "j", "s", "o", "n", ":">>)>>,
      <<L(<<"a", ":", " ", "1">>), L(<<"-", " ", "2">>)>>,
      <<L(<<"a", ":", " ", "1">>), L(<<":", "b">>)>>,
      <<L(<<"a", ":", " ", "1">>), L(<<"b">>)>>,
      <<L(<<"1", " ", "2">>)>>,
      <<L(<<"1", ":", "2">>)>>,
      <<L(<<"1", " ", "#">>), L(<<"2">>)>>,
      <<L(<<"-", "x">>)>>,
      <<L(<<"+", "1", "2">>)>>,
      <<L(<<"f", "a", "l", "s", "e">>)>>,
      <<L(<<"0", "x", "1", "f">>)>>,
      <<L(<<"1", ".", "5">>)>>,
      <<L(<<":", "d", "a", "t", "e", "t", "i", "m", "e", ":", " ", "2", "0", "2", "0", "-", "0", "1", "-", "0", "2">>)>>,
      <<L(<<"a", ":", ":", "d", "a", "t", "e", "t", "i", "m", "e", ":", " ", "2", "0", "2", "0", "0", "1", "0", "2", "T", "0", "3", ":", "0", "4", ":", "0", "5", ".", "5", "-", "0", "5", ":", "3", "0">>),
        L(<<"b", ":", ":", "d", "a", "t", "e", "t", "i", "m", "e", ":", " ", "2", "0", "2", "0", "-", "0", "1", "-", "0", "2", " ", "0", "3", "0", "4", "0", "5", "Z", " ", "#">>)>>,
      <<L(<<":", "d", "a", "t", "e", "t", "i", "m", "e", ":", " ", "2", "0", "2", "0", "-", "1">>)>>,
      <<L(<<":", "t", "i", "m", "e", "s", "t", "a", "m", "p", ":", " ", "1", "2", ".", "2", "5">>)>>,
      <<L(<<":", "t", "i", "m", "e", "s", "t", "a", "m", "p", ":">>), L(<<"7">>)>>,
      <<L(<<":", "t", "i", "m", "e", "s", "t", "a", "m", "p", ":", " ", "1", "x">>)>> }

\* JSON texts
JsonScalars == {L(<<"1">>), L(<<"-", "1">>), L(<<"t", "r", "u", "e">>), L(<<"\"", "a", "\"">>)}
JsonItems == JsonScalars \cup {L(<<"[", "1", "]">>), L(<<"{", "}">>)}
JsonItemSeqs == SeqsUpTo(JsonItems, MaxItems)

\* the member of an object at index i: keys alternate unless `dup`
JsonMember(items, i, dup) ==
    (IF dup \/ i % 2 = 1 THEN L(<<"\"", "a", "\"">>) ELSE L(<<"\"", "b", "\"">>))
        \o L(<<":", " ">>) \o items[i]

RECURSIVE JoinComma(_)
JoinComma(parts) ==
    IF parts = <<>> THEN <<>>
    ELSE IF Len(parts) = 1 THEN parts[1]
    ELSE parts[1] \o L(<<",", " ">>) \o JoinComma(Tail(parts))

\* a bracketed sequence on one line
JsonOneLine(open, parts, close) == <<open \o JoinComma(parts) \o close>>

\* a bracketed sequence with one part per line
JsonPerLine(open, parts, close) ==
    <<open>>
    \o [i \in 1..Len(parts) |-> Indent(2, parts[i] \o (IF i < Len(parts) THEN L(<<",">>) ELSE <<>>))]
    \o <<close>>

JsonArrayDocs ==
    UNION {{JsonOneLine(L(<<"[">>), items, L(<<"]">>)), JsonPerLine(L(<<"[">>), items, L(<<"]">>))}
           : items \in JsonItemSeqs}

JsonObjectDocs ==
    UNION {LET members == [i \in 1..Len(items) |-> JsonMember(items, i, dup)]
           IN  {JsonOneLine(L(<<"{">>), members, L(<<"}">>)),
                JsonPerLine(L(<<"{">>), members, L(<<"}">>))}
           : items \in JsonItemSeqs, dup \in BOOLEAN}

\* documents that conform to strict JSON: no comments
StrictJsonDocs ==
    {<<s>> : s \in JsonScalars} \cup {<<Indent(1, s), <<>>>> : s \in JsonScalars}
        \cup {<< <<>>, s>> : s \in JsonItems}
        \cup JsonArrayDocs \cup JsonObjectDocs

\* JSON number tokens with and without a sign
NumberSamples == {0, 1, 12, UW_SIGNED_MAX}
SignedToken(sign, n) == sign \o Digits(n)
JsonNumberDocs ==
    {<<SignedToken(sign, n)>> : sign \in {<<>>, L(<<"-">>), L(<<"+">>)}, n \in NumberSamples}

\* other JSON input: empty and comment-only documents, comments, bad syntax
JsonOtherDocs ==
    { <<>>, << <<>> >>, <<L(<<"#", " ", "c">>)>>,
      <<L(<<"[", "1", " ", "#", "c">>), L(<<",", "2", "]", " ", "#", "c">>)>>,
      <<L(<<"[", "1", " ", "2", "]">>)>>, <<L(<<"[", "1", ",">>)>>,
      <<L(<<"{", "\"", "a", "\"", " ", "1", "}">>)>>, <<L(<<"{", "\"", "a", "\"", ":", "1", " ", "\"", "b", "\"", ":", "2", "}">>)>>,
      <<L(<<"{", "a", ":", "1", "}">>)>>, <<L(<<"\"", "a">>)>>, <<L(<<"n", "u", "l", "l">>)>>,
      <<L(<<"f", "a", "l", "s", "e">>), L(<<"1">>)>>, <<L(<<"1", " ", "x">>)>>, <<L(<<"x">>)>>,
      <<L(<<"{", "\"", "a", "\"", ":", "[", "}">>)>>, <<L(<<"{", "\"", "a", "\"", ":", "1", ",">>)>> }

\* documents nested up to and beyond the recursion limit
DeepListDoc(n, tail) == <<Repeat(L(<<"-", " ">>), n) \o tail>>
DeepDocs ==
    { DeepListDoc(AMW_MAX_RECURSION_DEPTH - 1, L(<<"1">>)),
      DeepListDoc(AMW_MAX_RECURSION_DEPTH, L(<<"1">>)),
      DeepListDoc(AMW_MAX_RECURSION_DEPTH - 1, L(<<"\"", "a">>)) }
DeepJsonDocs ==
    { <<Repeat(L(<<"[">>), n) \o Repeat(L(<<"]">>), n)>>
      : n \in {AMW_MAX_RECURSION_DEPTH - 1, AMW_MAX_RECURSION_DEPTH} }

\* documents read from a source that fails
IoAmwDocs ==
    { <<L(<<"-", " ", "1">>), L(<<"-", " ", "2">>)>>,
      <<L(<<"a", ":", " ", "1">>), L(<<"b", ":", " ", "2">>)>>,
      <<L(<<"a", ":">>), L(<<" ", "1">>)>>,
      <<L(<<"\"", "s">>), L(<<" ", "t", "\"">>)>>,
      <<L(<<"\"", "s">>), L(<<"\"">>)>>,
      <<L(<<"x">>), L(<<"y">>)>>,
      <<L(<<"1">>), L(<<"2">>)>>,
      <<L(<<":", "j", "s", "o", "n", ":", " ", "[", "1", ",">>), L(<<" ", " ", "2", "]">>)>>,
      <<L(<<":", "j", "s", "o", "n", ":", " ", "1">>), L(<<" ", "x">>)>>,
      <<L(<<":", "j", "s", "o", "n", ":">>), L(<<"1">>)>> }
IoJsonDocs ==
    { <<L(<<"[", "1", ",">>), L(<<"2", "]">>)>>,
      <<L(<<"[", " ", "#", "c">>), L(<<"]">>)>>,
      <<L(<<"[">>), <<>>, L(<<"]">>)>>,
      <<L(<<"1">>), L(<<"2">>)>> }

Program(api, docs) == {<<ApiCall(api, doc, 0, FALSE, "none")>> : doc \in docs}

IoPrograms(api, docs) ==
    UNION {{<<ApiCall(api, doc, io_at, sticky, "none")>> : io_at \in 1..Len(doc), sticky \in BOOLEAN}
           : doc \in docs}

\* the same JSON text through both entry points
JsonPairs ==
    { <<ApiCall("amw_parse", <<L(<<":", "j", "s", "o", "n", ":">>)>> \o doc, 0, FALSE, "none"),
        ApiCall("amw_parse_json", doc, 0, FALSE, "none")>>
      : doc \in StrictJsonDocs \cup DeepJsonDocs }

Programs ==
    Program("amw_parse", AmwDocs \cup ListDocs \cup LiteralDocs \cup FoldedDocs \cup EscapeDocs
                             \cup BlankDocs \cup KeywordDocs \cup UnsignedDocs
                             \cup SeparatorDocs \cup BackslashDocs \cup OctalDocs
                             \cup ZoneDocs \cup QuotedDocs
                             \cup SampleDocs \cup DeepDocs)
        \cup Program("amw_parse_json", JsonNumberDocs \cup JsonOtherDocs \cup DeepJsonDocs)
        \cup JsonPairs
        \cup IoPrograms("amw_parse", IoAmwDocs) \cup IoPrograms("amw_parse_json", IoJsonDocs)
        \cup {<<ApiCall(api, <<L(<<"1">>)>>, 0, FALSE, fail)>>
              : api \in {"amw_parse", "amw_parse_json"}, fail \in CreateFailures}

Init == \E program \in Programs : InitWith(program)

Next ==
    \/ Invoke
    \/ amw_parse
    \/ amw_parse_json
    \/ amw_create_parser
    \/ amw_delete_parser
    \/ _amw_read_block_line
    \/ _amw_read_block
    \/ parse_nested_block
    \/ parse_nested_block_from_next_line
    \/ parse_value
    \/ check_value_end
    \/ parse_list
    \/ parse_map
    \/ parse_quoted_string
    \/ parse_raw_value
    \/ parse_literal_string
    \/ parse_folded_string
    \/ parse_datetime
    \/ parse_timestamp
    \/ skip_spaces
    \/ _amw_parse_json_value
    \/ parse_array
    \/ parse_object
    \/ parse_object_member
    \/ _amw_json_parser_func

Spec == Init /\ [][Next]_vars

\* programs on sources whose reads fail, and documents that run the
\* built-in block parsers; the program is sequential and always takes its
\* next step
LiveDocs ==
    { <<L(<<":", "r", "a", "w", ":">>), L(<<"x">>), L(<<" ", "y">>)>>,
      <<L(<<":", "l", "i", "t", "e", "r", "a", "l", ":", " ", "x">>), L(<<" ", "y">>), <<>>>>,
      <<L(<<":", "f", "o", "l", "d", "e", "d", ":">>), L(<<"x">>), L(<<"y">>)>>,
      <<L(<<":", "d", "a", "t", "e", "t", "i", "m", "e", ":", " ", "2", "0", "2", "0", "-", "0", "1", "-", "0", "2">>)>>,
      <<L(<<":", "t", "i", "m", "e", "s", "t", "a", "m", "p", ":">>), L(<<"7">>)>> }
LivePrograms ==
    IoPrograms("amw_parse", IoAmwDocs) \cup IoPrograms("amw_parse_json", IoJsonDocs)
        \cup Program("amw_parse", LiveDocs)
        \cup Program("amw_parse_json", JsonOtherDocs)
        \cup {<<ApiCall(api, <<L(<<"1">>)>>, 0, FALSE, fail)>>
              : api \in {"amw_parse", "amw_parse_json"}, fail \in CreateFailures}
LiveInit == \E program \in LivePrograms : InitWith(program)
LiveSpec == LiveInit /\ [][Next]_vars /\ WF_vars(Next)

---------------------------------------------------------------------------
(* Properties *)

\* a call on a source that does not fail, with a parser that is constructed
Plain(c) == c.io_at = 0 /\ c.create_fail = "none"

IsParseError(v, desc) == v.t = "Status" /\ v.code = "AMW_PARSE_ERROR" /\ v.desc = desc
IsStatus(v, code) == v.t = "Status" /\ v.code = code
IsValue(v) == v.t \notin {"Status", "Crash"}

\* a line that is neither blank nor a comment
IsContentLine(line) ==
    LET t == uw_string_ltrim(line) IN t # <<>> /\ t[1] # AMW_COMMENT

LineIndent(line) == uw_string_skip_spaces(line, 0)

\* the entry point has returned to the client
Returned == stack = <<>> /\ results # <<>>
LastResult == results[Len(results)]

\* C1: when the top-level value is a one-line scalar (number, keyword,
\* single-line quoted string) and a later line of the document is content,
\* amw_parse returns the parse error "Extra data after parsed value" and
\* never a value.
C1_ExtraDataAfterScalar ==
    \A i \in DOMAIN results :
        LET c == results[i].call IN
        (/\ c.api = "amw_parse"
         /\ Plain(c)
         /\ Len(c.markup) >= 2
         /\ c.markup[1] \in ScalarLines
         /\ \E j \in 2..Len(c.markup) : IsContentLine(c.markup[j]))
        => IsParseError(results[i].outcome, "Extra data after parsed value")

\* C2: a content line that follows the list item "- 1" at column 0 and is
\* not at column 0 yields the parse error "Bad indentation of list item";
\* "- 1\n  - 2\n" never yields the list [1].
C2_BadListIndentation ==
    \A i \in DOMAIN results :
        LET c == results[i].call IN
        (/\ c.api = "amw_parse"
         /\ Plain(c)
         /\ Len(c.markup) >= 2
         /\ c.markup[1] = L(<<"-", " ", "1">>)
         /\ IsContentLine(c.markup[2])
         /\ LineIndent(c.markup[2]) # 0)
        => IsParseError(results[i].outcome, "Bad indentation of list item")

\* C3: a key line that follows the entry "a: 1" at column 0 and starts at
\* another column yields the parse error "Bad indentation of map key"
\* reported at that column; "a: 1\n    b: 2\n" never yields the map {a: 1}.
C3_BadMapIndentation ==
    \A i \in DOMAIN results :
        LET c == results[i].call IN
        (/\ c.api = "amw_parse"
         /\ Plain(c)
         /\ Len(c.markup) >= 2
         /\ c.markup[1] = KVLine(0, L(<<"a">>), L(<<"1">>))
         /\ \E col \in 1..4 : c.markup[2] = KVLine(col, L(<<"b">>), L(<<"2">>)))
        => /\ IsParseError(results[i].outcome, "Bad indentation of map key")
           /\ results[i].outcome.pos = LineIndent(c.markup[2])

\* C4: neither amw_parse nor amw_parse_json returns a status whose code is
\* AMW_END_OF_BLOCK, whatever the input.
C4_EndOfBlockNotSurfaced ==
    \A i \in DOMAIN results : ~_amw_end_of_block(results[i].outcome)

\* C5: when a read of a line has failed with an I/O error during a parse,
\* the entry point returns that I/O error, never a value or a parse error.
C5_IoErrorPropagates ==
    (Returned /\ src.failed) => IsStatus(LastResult.outcome, "UW_ERROR_IO")

\* C6: when the construction of the parser fails the entry point returns
\* OOM, amw_delete_parser never runs on a null parser and every parser
\* allocated is deleted exactly once.
C6_ConstructionFailure ==
    (Returned /\ LastResult.call.create_fail # "none")
    => /\ IsStatus(LastResult.outcome, "UW_ERROR_OOM")
       /\ \A k \in DOMAIN delete_log : delete_log[k] # "null"
       /\ Cardinality({k \in DOMAIN delete_log : delete_log[k] = "valid"}) = allocated

\* C7: in every state of a parse blocklevel <= max_blocklevel and
\* json_depth <= max_json_depth.
C7_DepthWithinLimits ==
    /\ parser.blocklevel <= parser.max_blocklevel
    /\ parser.json_depth <= parser.max_json_depth

\* C8: amw_parse_json parses '-' followed by the decimal digits of
\* N <= SignedMax to the signed integer -N, and '+' followed by them to N.
C8_JsonSignedNumbers ==
    \A i \in DOMAIN results :
        LET c == results[i].call
            o == results[i].outcome
        IN  (c.api = "amw_parse_json" /\ Plain(c))
            => \A n \in NumberSamples :
                   /\ c.markup = <<SignedToken(L(<<"-">>), n)>> => (o.t = "Signed" /\ o.n = -n)
                   /\ c.markup = <<SignedToken(L(<<"+">>), n)>> => (o.t = "Signed" /\ o.n = n)

\* both calls return the same value, or both return an error
SameOutcome(a, b) ==
    IF IsValue(a) /\ IsValue(b) THEN a = b ELSE uw_error(a) /\ uw_error(b)

\* results i and j are amw_parse of a ":json:" line followed by J and
\* amw_parse_json of J, for a strict-JSON document J
JsonPair(i, j) ==
    LET ci == results[i].call
        cj == results[j].call
    IN  /\ ci.api = "amw_parse" /\ Plain(ci)
        /\ cj.api = "amw_parse_json" /\ Plain(cj)
        /\ cj.markup \in StrictJsonDocs \cup DeepJsonDocs
        /\ ci.markup = <<L(<<":", "j", "s", "o", "n", ":">>)>> \o cj.markup

\* C9: for a strict-JSON document J, amw_parse of J preceded by a ":json:"
\* line and amw_parse_json of J finish with equal outcomes: the same value,
\* or an error in both.
C9_JsonEquivalence ==
    \A i, j \in DOMAIN results :
        JsonPair(i, j) => SameOutcome(results[i].outcome, results[j].outcome)

\* both entry points have returned the same object of two members
C9_Witness ==
    \E i, j \in DOMAIN results :
        /\ JsonPair(i, j)
        /\ results[i].outcome = results[j].outcome
        /\ results[i].outcome.t = "Map"
        /\ Len(results[i].outcome.entries) = 2

\* the value a one-line scalar of KVValues stands for
ExpectedValue(v) ==
    IF v = L(<<"1">>) THEN UwSigned(1)
    ELSE IF v = L(<<"2">>) THEN UwSigned(2)
    ELSE UwString(v)

\* the (key, value) pairs a line at column `col` can be written from
KVOf(col, line) == {kv \in KVPairs : line = KVLine(col, kv[1], kv[2])}

\* the map a sequence of (key, value) lines stands for: one entry per key,
\* in the order of the first occurrences, holding the value of the last
ExpectedMap(kvs) ==
    LET firsts == {i \in DOMAIN kvs : \A j \in 1..(i - 1) : kvs[j][1] # kvs[i][1]}
        last(k) == CHOOSE i \in DOMAIN kvs :
                       kvs[i][1] = k /\ \A j \in (i + 1)..Len(kvs) : kvs[j][1] # k
        nth(n) == CHOOSE i \in firsts : Cardinality({j \in firsts : j < i}) = n - 1
    IN  UwMap([n \in 1..Cardinality(firsts) |->
                 <<UwString(kvs[nth(n)][1]), ExpectedValue(kvs[last(kvs[nth(n)][1])][2])>>])

\* C10: a document of N >= 1 lines "k_i: v_i" at one column parses to the
\* map of the entries k_i -> v_i in source order; a key that occurs twice
\* has one entry, with the later value.
C10_MapInSourceOrder ==
    \A i \in DOMAIN results :
        LET c == results[i].call IN
        (c.api = "amw_parse" /\ Plain(c))
        => \A col \in KVColumns :
               (c.markup # <<>> /\ \A k \in DOMAIN c.markup : KVOf(col, c.markup[k]) # {})
               => results[i].outcome
                      = ExpectedMap([k \in DOMAIN c.markup |->
                                        CHOOSE kv \in KVOf(col, c.markup[k]) : TRUE])

\* a document of three lines with a repeated key has been parsed
C10_Witness ==
    \E i \in DOMAIN results :
        /\ results[i].call.markup
               = KVDoc(2, << <<L(<<"a">>), L(<<"1">>)>>, <<L(<<"b">>), L(<<"x">>)>>,
                             <<L(<<"a">>), L(<<"2">>)>> >>)
        /\ results[i].outcome
               = UwMap(<< <<UwString(L(<<"a">>)), UwSigned(2)>>,
                          <<UwString(L(<<"b">>)), UwString(L(<<"x">>))>> >>)

---------------------------------------------------------------------------
(* C11: lists of one-line scalars *)

\* the value an item text of ListValues stands for
ExpectedItem(v) ==
    IF v = L(<<"1">>) THEN UwSigned(1)
    ELSE IF v = L(<<"-", "3">>) THEN UwSigned(-3)
    ELSE UwString(v)

\* the item texts a line at column `col` can be written from
ItemOf(col, line) == {v \in ListValues : line = ListLine(col, v)}

\* C11: a document of N >= 1 lines "- v_i" at one column, with one-line
\* scalar values, parses to the list of the N values in source order; an
\* item "- -d" is the negative number -d, not a nested list.
C11_ListInSourceOrder ==
    \A i \in DOMAIN results :
        LET c == results[i].call IN
        (c.api = "amw_parse" /\ Plain(c))
        => \A col \in ListColumns :
               (c.markup # <<>> /\ \A k \in DOMAIN c.markup : ItemOf(col, c.markup[k]) # {})
               => results[i].outcome
                      = UwArray([k \in DOMAIN c.markup |->
                                    ExpectedItem(CHOOSE v \in ItemOf(col, c.markup[k]) : TRUE)])

\* the list "- 1", "- x", "- -3" at column 2 has been parsed
C11_Witness ==
    \E i \in DOMAIN results :
        /\ results[i].call.markup = ListDoc(2, <<L(<<"1">>), L(<<"x">>), L(<<"-", "3">>)>>)
        /\ results[i].outcome = UwArray(<<UwSigned(1), UwString(L(<<"x">>)), UwSigned(-3)>>)

---------------------------------------------------------------------------
(* C12: the literal conversion *)

\* the number of spaces every line of B starts with
CommonPrefix(B) ==
    CHOOSE n \in {LineIndent(B[i]) : i \in DOMAIN B} : \A i \in DOMAIN B : n <= LineIndent(B[i])

\* the lines of B without their common prefix, each followed by '\n'
RECURSIVE DedentedText(_, _)
DedentedText(B, n) ==
    IF B = <<>> THEN <<>>
    ELSE SubSeq(B[1], n + 1, Len(B[1])) \o <<10>> \o DedentedText(Tail(B), n)

\* C12: a block B of N >= 2 non-empty lines given to the literal conversion
\* yields the lines of B without their common leading-space prefix, joined
\* by '\n' and followed by exactly one '\n'; trailing empty lines of the
\* block are dropped before joining.
C12_LiteralDedentJoin ==
    \A i \in DOMAIN results :
        LET c == results[i].call IN
        (c.api = "amw_parse" /\ Plain(c))
        => \A b \in LiteralBlocks : \A e \in {<<>>, << <<>> >>} :
               c.markup = <<LiteralHead>> \o b \o e
               => results[i].outcome = UwString(DedentedText(b, CommonPrefix(b)))

\* a block of two indented lines and a trailing empty line has been converted
C12_Witness ==
    \E i \in DOMAIN results :
        /\ results[i].call.markup
               = <<LiteralHead, L(<<" ", " ", "#", "c">>), L(<<" ", "y", " ", "y">>), <<>>>>
        /\ results[i].outcome = UwString(L(<<" ", "#", "c">>) \o <<10>> \o L(<<"y", " ", "y">>) \o <<10>>)

---------------------------------------------------------------------------
(* C13: folding *)

\* the lines of B without the leading spaces common to its non-empty lines
Dedented(B) ==
    LET ne == {i \in DOMAIN B : B[i] # <<>>}
        n == CHOOSE n \in {LineIndent(B[i]) : i \in ne} : \A i \in ne : n <= LineIndent(B[i])
    IN  [i \in DOMAIN B |-> IF B[i] = <<>> THEN <<>> ELSE SubSeq(B[i], n + 1, Len(B[i]))]

\* lines D[i..] joined: one space between two consecutive non-empty lines,
\* one '\n' and no space for each empty line
RECURSIVE FoldedText(_, _)
FoldedText(D, i) ==
    IF i > Len(D) THEN <<>>
    ELSE (IF D[i] = <<>> THEN <<10>>
          ELSE IF i = 1 \/ D[i - 1] = <<>> THEN D[i]
          ELSE <<32>> \o D[i]) \o FoldedText(D, i + 1)

\* a block whose first and last lines are not empty and in which, after
\* dedent, no line starts with whitespace
Foldable(B) ==
    /\ B # <<>> /\ B[1] # <<>> /\ B[Len(B)] # <<>>
    /\ \A i \in DOMAIN B : Dedented(B)[i] = <<>> \/ ~uw_isspace(Dedented(B)[i][1])

\* C13: a block in which, after dedent, no line starts with whitespace and
\* no line is empty folds to the dedented lines joined with exactly one
\* space; an empty line between non-empty lines contributes exactly one
\* '\n' with no space on either side of it.
C13_FoldJoinsWithSpace ==
    \A i \in DOMAIN results :
        LET c == results[i].call IN
        (c.api = "amw_parse" /\ Plain(c))
        => \A b \in FoldedBlocks :
               (c.markup = <<FoldedHead>> \o b /\ Foldable(b))
               => results[i].outcome = UwString(FoldedText(Dedented(b), 1))

\* a block of two lines has been folded with one space, and a block of two
\* indented lines around an empty line with one '\n'
C13_Witness ==
    /\ Returned
    /\ LET c == LastResult.call IN
       \/ /\ c.markup = <<FoldedHead, L(<<"x">>), L(<<"y", " ", "z">>)>>
          /\ LastResult.outcome = UwString(L(<<"x", " ", "y", " ", "z">>))
       \/ /\ c.markup = <<FoldedHead, L(<<" ", "w">>), <<>>, L(<<" ", "w">>)>>
          /\ LastResult.outcome = UwString(L(<<"w">>) \o <<10>> \o L(<<"w">>))

---------------------------------------------------------------------------
(* C14: numeric escapes *)

HexDigitValue(c) ==
    IF 48 <= c /\ c <= 57 THEN c - 48 ELSE IF 97 <= c /\ c <= 102 THEN c - 87 ELSE c - 55

\* the integer value of a string of hex digits
RECURSIVE HexValue(_)
HexValue(ds) ==
    IF ds = <<>> THEN 0
    ELSE HexValue(SubSeq(ds, 1, Len(ds) - 1)) * 16 + HexDigitValue(ds[Len(ds)])

\* C14: an escape \xNN, \uNNNN or \UNNNNNNNN in a single-line quoted string
\* yields exactly one character whose code point is the integer value of
\* the 2, 4 or 8 hex digits (upper or lower case); fewer hex digits than
\* required, or a non-hex character among them, yields a parse error at
\* that character's position.
C14_HexEscapes ==
    \A i \in DOMAIN results :
        LET c == results[i].call
            out == results[i].outcome
        IN
        (c.api = "amw_parse" /\ Plain(c))
        => \A e \in EscapeCases :
               c.markup = <<EscapeLine(e)>>
               => IF Len(e.digits) = HexLen(e.kind)
                  THEN out = UwString(e.prefix \o <<HexValue(e.digits)>> \o e.suffix)
                  ELSE /\ out.t = "Status" /\ out.code = "AMW_PARSE_ERROR"
                       /\ out.line = 1
                       /\ out.pos = 1 + Len(e.prefix) + 2 + Len(e.digits)

\* "a€z" has been unescaped to a, U+20AC, z, and '\x4' was an error
C14_Witness ==
    /\ Returned
    /\ \/ /\ LastResult.call.markup = <<L(<<"\"", "a", "\\", "u", "2", "0", "A", "C", "z", "\"">>)>>
          /\ LastResult.outcome = UwString(<<97, 8364, 122>>)
       \/ /\ LastResult.call.markup = <<L(<<"'", "\\", "x", "4", "'">>)>>
          /\ IsParseError(LastResult.outcome, "Bad hexadecimal value")

---------------------------------------------------------------------------
(* C15: block_indent and blocklevel across the functions that open a block *)

BlockOpeners == {"parse_nested_block", "parse_nested_block_from_next_line", "parse_quoted_string"}

\* the step is the return of the function on top of the stack
ReturnsFrom(fns) == stack # <<>> /\ Top.fn \in fns /\ Len(stack') = Len(stack) - 1

\* block_indent and blocklevel on entry to the function on top of the stack
EntryOfTop == IF Top.pc = "start" THEN OnEntry(parser) ELSE Top.entry

\* C15: whenever parse_nested_block, parse_nested_block_from_next_line or
\* parse_quoted_string returns, on success and on every error path,
\* block_indent and blocklevel have the values they had on entry.
C15_BlockStateRestored ==
    [][ReturnsFrom(BlockOpeners) => OnEntry(parser') = EntryOfTop]_vars

---------------------------------------------------------------------------
(* C16: what _amw_read_block_line returns *)

\* C16: when _amw_read_block_line returns success, current_line is empty or
\* has current_indent >= block_indent; when it returns end-of-block, either
\* eof is set or the line that caused it, now pushed back, is a non-comment
\* line with current_indent < block_indent.
C16_BlockLineContract ==
    [][ReturnsFrom({"_amw_read_block_line"})
       => /\ ret'.val = UwOK
             => \/ parser'.current_line = <<>>
                \/ parser'.current_indent >= parser'.block_indent
          /\ _amw_end_of_block(ret'.val)
             => \/ parser'.eof
                \/ /\ src'.unread # NoLine
                   /\ IsContentLine(src'.unread[1])
                   /\ LineIndent(src'.unread[1]) = parser'.current_indent
                   /\ parser'.current_indent < parser'.block_indent]_vars

\* the block reader has ended a block on a dedented line that it pushed back
C16_Witness ==
    /\ _amw_end_of_block(ret.val)
    /\ ~parser.eof
    /\ src.unread # NoLine
    /\ parser.current_indent < parser.block_indent

---------------------------------------------------------------------------
(* C17: the line pushed back on a dedent *)

\* C17: when _amw_read_block_line ends a block on a non-comment line
\* dedented below block_indent, that line is pushed back and current_line is
\* truncated; the next _amw_read_block_line call obtains that same line with
\* the same line_number (and pushes it back again if it is dedented below
\* the enclosing block as well); no parse returns a value while a line is
\* still pushed back.
C17_DedentLineRedelivered ==
    [][/\ ReturnsFrom({"_amw_read_block_line"})
          => /\ (_amw_end_of_block(ret'.val) /\ ~parser'.eof)
                => /\ src'.unread = <<uw_string_rtrim(markup[src'.pos])>>
                   /\ parser'.current_line = <<>>
                   /\ parser'.line_number = src'.pos
             /\ src.unread # NoLine
                => /\ parser'.line_number = parser.line_number
                   /\ parser'.current_indent = LineIndent(src.unread[1])
                   /\ \/ /\ ret'.val = UwOK
                         /\ parser'.current_line = src.unread[1]
                         /\ src'.unread = NoLine
                      \/ /\ _amw_end_of_block(ret'.val)
                         /\ parser'.current_indent < parser'.block_indent
                         /\ src'.unread = src.unread
                         /\ parser'.current_line = <<>>
       /\ (results' # results /\ IsValue(results'[Len(results')].outcome))
          => src.unread = NoLine]_vars

\* in "- 1", "- x" the line "- x", pushed back by the block of the first
\* item, has been delivered again to parse_list
C17_Witness ==
    /\ markup = <<L(<<"-", " ", "1">>), L(<<"-", " ", "x">>)>>
    /\ Running("parse_list") /\ Top.pc = "read" /\ Len(Top.result.items) = 1
    /\ ret.val = UwOK
    /\ parser.current_line = L(<<"-", " ", "x">>)
    /\ parser.line_number = 2
    /\ src.unread = NoLine

---------------------------------------------------------------------------
(* C18: one line of pushback, lines in order *)

\* C18: the pushback buffer never holds more than one line: unread_line is
\* called only when a dedent ends a block, on the line returned by the
\* immediately preceding read_line, never twice without a read_line in
\* between (it never fails); apart from the re-delivery of a pushed-back
\* line, lines are observed in strictly increasing line_number.
C18_SingleLinePushback ==
    [][ReturnsFrom({"_amw_read_block_line"})
       => /\ ~IsStatus(ret'.val, "UW_ERROR_UNREAD_FAILED")
          /\ Len(src'.unread) <= 1
          /\ (src'.unread # NoLine /\ src'.unread # src.unread)
             => /\ _amw_end_of_block(ret'.val)
                /\ src.unread = NoLine
                /\ src'.unread = <<uw_string_rtrim(markup[src'.pos])>>
                /\ parser'.line_number = src'.pos
          /\ parser'.line_number >= parser.line_number
          /\ (parser'.line_number = parser.line_number /\ src'.pos # src.pos) => src.unread # NoLine
          /\ (src.unread = NoLine /\ ret'.val = UwOK) => parser'.line_number > parser.line_number]_vars

\* the third line of a document is in the pushback buffer
C18_Witness ==
    /\ src.unread # NoLine
    /\ src.pos = 3
    /\ src.unread[1] = uw_string_rtrim(markup[3])
    /\ Running("parse_nested_block")

---------------------------------------------------------------------------
(* C19: eof is sticky *)

\* C19: once eof is set it is never cleared and the source is never read
\* from or pushed back to again during that parse; every later
\* _amw_read_block_line call returns end-of-block, blocklevel starting at 1
\* and never dropping below 1.
C19_EofSticky ==
    [][/\ parser'.blocklevel >= 1
       /\ (parser.eof /\ stack # <<>> /\ ~Running("amw_create_parser"))
          => /\ parser'.eof
             /\ src' = src
             /\ ReturnsFrom({"_amw_read_block_line"}) => _amw_end_of_block(ret'.val)]_vars

\* in "- 1" the source was exhausted by the block of the item, and the read
\* of parse_list that follows has returned end-of-block
C19_Witness ==
    /\ markup = <<L(<<"-", " ", "1">>)>>
    /\ Running("parse_list") /\ Top.pc = "read"
    /\ parser.eof
    /\ _amw_end_of_block(ret.val)

---------------------------------------------------------------------------
(* C20: comments and the block reader *)

IsCommentText(line) ==
    LET t == uw_string_ltrim(line) IN t # <<>> /\ t[1] = AMW_COMMENT

\* C20: _amw_read_block_line never returns and never pushes back a comment
\* line whose indent is below block_indent: it skips such lines, and it
\* skips nothing but comment lines and blank lines. While skip_comments is
\* true it returns neither a blank line nor a comment line, and
\* skip_comments is cleared exactly when the first non-blank, non-comment
\* line is read.
C20_CommentsSkipped ==
    [][ReturnsFrom({"_amw_read_block_line"})
       => LET handed == ret'.val = UwOK \/ (_amw_end_of_block(ret'.val) /\ ~parser'.eof)
              last == markup[src'.pos]
              skipped == IF src.unread # NoLine THEN {}
                         ELSE IF handed THEN (src.pos + 1)..(src'.pos - 1)
                         ELSE (src.pos + 1)..src'.pos
          IN  /\ \A k \in skipped : ~IsContentLine(markup[k])
              /\ handed => ~(IsCommentText(last) /\ LineIndent(last) < parser.block_indent)
              /\ src'.unread # NoLine => IsContentLine(src'.unread[1])
              /\ (parser.skip_comments /\ ret'.val = UwOK) => IsContentLine(parser'.current_line)
              /\ parser'.skip_comments
                     = (parser.skip_comments /\ ~(handed /\ IsContentLine(last)))]_vars

\* in "- 1", "# c", "- 1" the comment, dedented below the block of the first
\* item, was skipped and parse_list has obtained the third line
C20_Witness ==
    /\ markup = <<L(<<"-", " ", "1">>), L(<<"#", " ", "c">>), L(<<"-", " ", "1">>)>>
    /\ Running("parse_list") /\ Top.pc = "read" /\ Len(Top.result.items) = 1
    /\ ret.val = UwOK
    /\ parser.line_number = 3
    /\ parser.current_line = L(<<"-", " ", "1">>)

---------------------------------------------------------------------------
(* C21: blank lines between siblings *)

\* C21: two sibling list items, or two sibling map entries, with one-line
\* scalar values and k >= 1 blank lines between them parse to the same list
\* or map as the two lines without the blank lines.
C21_BlankLinesSeparate ==
    \A i \in DOMAIN results :
        LET c == results[i].call IN
        (c.api = "amw_parse" /\ Plain(c))
        => /\ \A col \in ListColumns, k \in BlankCounts \ {0}, v1 \in ListValues, v2 \in ListValues :
                  c.markup = BlankSeparated(ListLine(col, v1), k, ListLine(col, v2))
                  => results[i].outcome = UwArray(<<ExpectedItem(v1), ExpectedItem(v2)>>)
           /\ \A col \in KVColumns, k \in BlankCounts \ {0}, v1 \in KVValues, v2 \in KVValues :
                  c.markup = BlankSeparated(KVLine(col, L(<<"a">>), v1), k, KVLine(col, L(<<"b">>), v2))
                  => results[i].outcome
                         = UwMap(<< <<UwString(L(<<"a">>)), ExpectedValue(v1)>>,
                                    <<UwString(L(<<"b">>)), ExpectedValue(v2)>> >>)

---------------------------------------------------------------------------
(* C22: the block of a list item's value *)

\* C22: while parse_list parses an item, the nested block of the item's value
\* has block_indent item_column + 2, both when the value starts on the marker
\* line (the column after "- ") and when the remainder of the marker line is
\* empty or a comment and the value starts on the next line.
C22_ItemBlockIndent ==
    \A k \in DOMAIN stack :
        (stack[k].fn = "parse_list" /\ stack[k].pc = "item" /\ k < Len(stack))
        => /\ stack[k + 1].fn = "parse_nested_block"
              => stack[k + 1].block_pos = stack[k].item_indent + 2
           /\ (/\ stack[k + 1].fn = "parse_nested_block_from_next_line"
               /\ k + 1 < Len(stack)
               /\ stack[k + 2].fn = "parse_nested_block")
              => stack[k + 2].block_pos = stack[k].item_indent + 2

---------------------------------------------------------------------------
(* C23: reserved keywords *)

\* the characters that end a value
IsValueTerminator(c) == c = 0 \/ uw_isspace(c) \/ c = AMW_COMMENT \/ c = Ord[":"]

\* the scalar a keyword stands for
KeywordValue(kw) ==
    IF kw = L(<<"n", "u", "l", "l">>) THEN UwNull
    ELSE UwBool(kw = L(<<"t", "r", "u", "e">>))

\* C23: a one-line document that starts with null, true or false yields the
\* keyword's scalar only when the keyword is followed by a value terminator;
\* when the keyword is the prefix of a longer word the line is handled by the
\* literal-string-or-map rules: "word: 1" is the map {word: 1} and "word" is
\* the string "word".
C23_KeywordNeedsTerminator ==
    \A i \in DOMAIN results :
        LET c == results[i].call
            out == results[i].outcome
        IN
        (c.api = "amw_parse" /\ Plain(c))
        => \A kw \in Keywords, tail \in KeywordTails :
               c.markup = <<kw \o tail>>
               => /\ out = KeywordValue(kw) => IsValueTerminator(uw_char_at(tail, 0))
                  /\ ~IsValueTerminator(uw_char_at(tail, 0))
                     => LET colon == uw_strchr(tail, Ord[":"], 0) IN
                        IF colon >= 0
                        THEN out = UwMap(<< <<UwString(kw \o uw_substr(tail, 0, colon)),
                                              UwSigned(1)>> >>)
                        ELSE out = UwString(kw \o tail)

---------------------------------------------------------------------------
(* C24: overflow of unsigned numbers *)

\* the value of a digit character, and of a digit sequence in a radix, in
\* unbounded arithmetic
DigitValue(c) == IF c >= 97 THEN c - 87 ELSE c - 48
RECURSIVE MathValue(_, _)
MathValue(ds, radix) ==
    IF ds = <<>> THEN 0
    ELSE MathValue(SubSeq(ds, 1, Len(ds) - 1), radix) * radix + DigitValue(ds[Len(ds)])

\* the digit sequences of a radix a line can be written from
UnsignedOf(radix, line) ==
    {ds \in {DigitsIn(n, radix) : n \in UnsignedSamples} : line = RadixPrefix(radix) \o ds}

\* C24: a one-line number of digits in radix 2, 8, 10 or 16 yields the parse
\* error "Numeric overflow" exactly when the mathematical value of the digits
\* exceeds UW_UNSIGNED_MAX, and otherwise yields exactly that value: no
\* wrapped-around value is returned.
C24_UnsignedOverflow ==
    \A i \in DOMAIN results :
        LET c == results[i].call
            out == results[i].outcome
        IN
        (c.api = "amw_parse" /\ Plain(c) /\ Len(c.markup) = 1)
        => \A radix \in Radixes : \A ds \in UnsignedOf(radix, c.markup[1]) :
               LET v == MathValue(ds, radix) IN
               /\ IsParseError(out, "Numeric overflow") <=> v > UW_UNSIGNED_MAX
               /\ v <= UW_UNSIGNED_MAX
                  => out = IF v > UW_SIGNED_MAX THEN UwUnsigned(v) ELSE UwSigned(v)

\* a decimal number whose last digit wraps around has been parsed
C24_Witness ==
    /\ Returned
    /\ LastResult.call.markup = <<DigitsIn(UW_UNSIGNED_MAX + 4, 10)>>
    /\ IsParseError(LastResult.outcome, "Numeric overflow")

---------------------------------------------------------------------------
(* C25: digit separators *)

IsSeparator(c) == c = Ord["'"] \/ c = Ord["_"]

\* length of the run of digits and separators a text starts with
RECURSIVE TokenLen(_, _)
TokenLen(body, n) ==
    IF n < Len(body) /\ (uw_isdigit(body[n + 1]) \/ IsSeparator(body[n + 1]))
    THEN TokenLen(body, n + 1) ELSE n

\* some separator of the number a text starts with is not between two digits
SeparatorMisplaced(body) ==
    LET n == TokenLen(body, 0) IN
    \E i \in 1..n :
        /\ IsSeparator(body[i])
        /\ \/ i = 1 \/ i = n
           \/ ~uw_isdigit(body[i - 1]) \/ ~uw_isdigit(body[i + 1])

\* C25: a number in which a separator (' or _) comes before the first digit,
\* next to another separator, or after the last digit (before end of line,
\* whitespace, ':' or '#') yields a parse error.
C25_SeparatorBetweenDigits ==
    \A i \in DOMAIN results :
        LET c == results[i].call IN
        (c.api = "amw_parse" /\ Plain(c))
        => \A prefix \in SeparatorPrefixes, body \in SeparatorBodies :
               (/\ c.markup = <<prefix \o body>>
                /\ (prefix # <<>> \/ uw_isdigit(body[1]))
                /\ SeparatorMisplaced(body))
               => IsStatus(results[i].outcome, "AMW_PARSE_ERROR")

---------------------------------------------------------------------------
(* C26: a backslash at the end of a line *)

\* the unescaped text of the BackslashTexts
UnescapedText(t) == IF t = L(<<"\\", "n">>) THEN <<10>> ELSE t

\* C26: a two-line quoted string whose first line ends with a backslash that
\* starts no escape sequence folds to the unescaped text of the first line,
\* one backslash, a space and the text of the second line.
C26_TrailingBackslashKept ==
    \A i \in DOMAIN results :
        LET c == results[i].call IN
        (c.api = "amw_parse" /\ Plain(c))
        => \A quote \in {"\"", "'"}, t \in BackslashTexts, u \in {L(<<"b">>)} :
               c.markup = BackslashDoc(quote, t, u)
               => results[i].outcome = UwString(UnescapedText(t) \o L(<<"\\", " ">>) \o u)

---------------------------------------------------------------------------
(* C27: octal escapes *)

\* the integer value of a string of octal digits
RECURSIVE OctalValue(_)
OctalValue(ds) ==
    IF ds = <<>> THEN 0
    ELSE OctalValue(SubSeq(ds, 1, Len(ds) - 1)) * 8 + (ds[Len(ds)] - 48)

\* C27: an escape \o followed by 1, 2 or 3 octal digits in a single-line
\* quoted string yields one character whose code is the octal value of the
\* digits, whatever follows them (the closing quote or a character that is
\* then processed normally); \o followed by no octal digit is a parse error.
C27_OctalEscapes ==
    \A i \in DOMAIN results :
        LET c == results[i].call
            out == results[i].outcome
        IN
        (c.api = "amw_parse" /\ Plain(c))
        => \A e \in OctalCases :
               c.markup = <<OctalLine(e)>>
               => IF Len(e.digits) >= 1
                  THEN out = UwString(e.prefix \o <<OctalValue(e.digits)>> \o e.suffix)
                  ELSE IsStatus(out, "AMW_PARSE_ERROR")

---------------------------------------------------------------------------
(* C28: the GMT offset of a date-time *)

\* the date-time of DateTimeHead with a GMT offset in minutes
DateTimeAt(gmt_offset) == UwDateTime(2024, 1, 2, 3, 4, 5, 0, gmt_offset)

\* C28: a date-time with zone suffix sHH[:][MM] has the GMT offset
\* +(HH*60 + MM) minutes for '+' and -(HH*60 + MM) minutes for '-'; with
\* suffix Z or no zone the offset is 0.
C28_GmtOffset ==
    \A i \in DOMAIN results :
        LET c == results[i].call
            out == results[i].outcome
        IN
        (c.api = "amw_parse" /\ Plain(c))
        => /\ c.markup \in {<<DateTimeHead>>, <<DateTimeHead \o L(<<"Z">>)>>}
              => out = DateTimeAt(0)
           /\ \A sign \in {"+", "-"}, hh \in ZoneHours, colon \in BOOLEAN, mm \in ZoneMinutes :
                  c.markup = <<DateTimeHead \o ZoneSuffix(sign, hh, colon, mm)>>
                  => LET minutes == hh * 60 + (IF mm < 0 THEN 0 ELSE mm) IN
                     out = DateTimeAt(IF sign = "-" THEN 0 - minutes ELSE minutes)

---------------------------------------------------------------------------
(* C29: the closing quote of a single-line quoted string *)

\* C29: a single-line quoted string is closed by the first quote that is
\* not part of an escape sequence, also when an escaped backslash precedes
\* it: its value is the unescaping of exactly the characters between the
\* quotes, and text other than a comment after the closing quote is not
\* dropped silently but reported.
C29_ClosingQuoteAgrees ==
    \A i \in DOMAIN results :
        LET c == results[i].call
            out == results[i].outcome
        IN
        (c.api = "amw_parse" /\ Plain(c))
        => \A q \in {Ord["\""], Ord["'"]}, t \in QuotedContents :
               /\ c.markup \in {<<QuotedLine(q, t[1], <<>>)>>,
                                <<QuotedLine(q, t[1], L(<<" ", "#", "c">>))>>}
                  => out = UwString(t[2])
               /\ c.markup = <<QuotedLine(q, t[1], L(<<" ", "x">>) \o <<q>>)>>
                  => IsStatus(out, "AMW_PARSE_ERROR")

---------------------------------------------------------------------------
(* C30: termination *)

\* every call of the client has returned
AllReturned == stack = <<>> /\ calls = <<>>

\* C30: on every finite line source, also one whose reads fail with an I/O
\* error, amw_parse and amw_parse_json eventually return.
C30_Terminates == <>AllReturned

=============================================================================
